---- MODULE Spec2Model ----
(***************************************************************************)
(* Model of libtcspc's Python processing-graph layer (libtcspc/_graph.py): *)
(* the Graph with its append-only node list, per-port edge tables, the     *)
(* incrementally maintained topological order (Pearce-Kelly 2007), the     *)
(* event-set propagation, the map_event_sets dry run and the generation   *)
(* of the C++ closure; of the on-demand build (libtcspc/_odext): the       *)
(* Builder with its stage and its meson subprocesses, the importer of the  *)
(* built modules and the background event loop its coroutines run on       *)
(* (libtcspc/_odext/_async.py); of compile_graph (libtcspc/_compile.py),   *)
(* which takes a Graph through both, alone and from several threads under  *)
(* its lock; and of the end of life of an execution context                *)
(* (libtcspc/_execute.py, libtcspc/_context.py).                           *)
(*                                                                         *)
(* Python objects with identity (_Edge) live in an explicit heap `edges`:  *)
(* the two edge tables hold references into it, so that sharing of one     *)
(* _Edge between the tables, and deepcopy, are modelled as what they do.   *)
(* Node ids are the 0-based indices of the Python list; positions in       *)
(* TLA+ sequences are 1-based.  Event sets (Python tuples of EventType)    *)
(* are modelled as sets of type tags.                                      *)
(***************************************************************************)
EXTENDS Integers, Sequences, FiniteSets, TLC

\* ------------------------------------------------------------------------
\* Bounds of the model
\* ------------------------------------------------------------------------

\* largest number of nodes a Graph gets
MaxNodes == 3

\* longest list of nodes given to add_sequence
MaxSeq == 2

\* the most "meson setup" subprocesses launched for one Builder
MaxSetups == 2

\* the most compile_graph calls made
MaxModules == 2

\* the number of threads that call compile_graph, or submit
MaxThreads == 2

\* the most _BackgroundEventLoop objects constructed
MaxLoops == 2

\* the most coroutines submitted
MaxTasks == 2

\* largest number of events an execution context handles
MaxEvents == 3

\* ------------------------------------------------------------------------
\* Basic values
\* ------------------------------------------------------------------------

\* Python's None where an _Edge or a node id is expected (both are >= 0)
None == -1

\* name=None of add_node
NoName == ""

\* upstream=None, downstream=None of add_node
NoPort == <<>>

\* event types (EventType values, compared by C++ type name)
BucketInt == "bucket<int>"
IntEvent == "int"
Range(s) == {s[i] : i \in 1..Len(s)}

\* list.index(x), as a 1-based position; 0 when x is absent (ValueError)
IndexOf(s, x) ==
    IF \E i \in 1..Len(s) : s[i] = x
    THEN CHOOSE i \in 1..Len(s) : s[i] = x /\ \A j \in 1..(i - 1) : s[j] # x
    ELSE 0

Max(S) == CHOOSE x \in S : \A y \in S : y <= x

\* ------------------------------------------------------------------------
\* Nodes: immutable values with port names and a type-flow function
\* ------------------------------------------------------------------------

\* OneToOnePassThroughNode (also TypePreservingRelayNode: Count, CheckMonotonic)
PassThroughNode ==
    [cls |-> "OneToOnePassThroughNode", inputs |-> <<"input">>, outputs |-> <<"output">>]

\* Unbatch(BucketEvent(int)): accepts only bucket<int>, emits int
UnbatchNode ==
    [cls |-> "Unbatch", inputs |-> <<"input">>, outputs |-> <<"output">>]

\* SinkEvents(int): accepts only int, has no output port
SinkEventsNode ==
    [cls |-> "SinkEvents", inputs |-> <<"input">>, outputs |-> <<>>]

\* _check_events_subset_of: TRUE when no ValueError is raised
check_events_subset_of(input_events, allowed_events) ==
    \A t \in input_events : t \in allowed_events

\* ------------------------------------------------------------------------
\* Edge tables and the _Edge heap
\* ------------------------------------------------------------------------

\* the event set read from an input slot (empty for an unconnected input)
slot_event_set(edges, e) == IF e # None THEN edges[e].event_set ELSE {}

\* a reference no live _Edge object has
fresh_ref(edges) == IF DOMAIN edges = {} THEN 0 ELSE Max(DOMAIN edges) + 1

\* the references held by an edge table
table_refs(edge_index) ==
    UNION {Range(edge_index[n]) : n \in DOMAIN edge_index} \ {None}

\* copy.copy of the lists of an edge table: new lists holding the same
\* _Edge objects
copy_lists(edge_index, edges) == [index |-> edge_index, edges |-> edges]

\* copy.deepcopy of an edge table: new lists holding new _Edge objects, each
\* a copy of the object the original slot refers to
deepcopy(edge_index, edges) ==
    LET base == fresh_ref(edges)
    IN  [index |-> [n \in DOMAIN edge_index |->
                      [k \in 1..Len(edge_index[n]) |->
                          IF edge_index[n][k] = None THEN None
                          ELSE base + edge_index[n][k]]],
         edges |-> [r \in DOMAIN edges \cup
                          {base + e : e \in table_refs(edge_index)} |->
                      IF r \in DOMAIN edges THEN edges[r] ELSE edges[r - base]]]

\* ------------------------------------------------------------------------
\* Type flow of nodes (Node.map_event_sets) and event-set propagation
\* ------------------------------------------------------------------------

\* Node.map_event_sets of the node classes: [ok, out]; ok = FALSE is the
\* ValueError of a rejected input event set.  A Subgraph node carries the
\* map_event_sets of the graph it wraps (see Subgraph below).
node_map_event_sets(node, input_event_sets) ==
    LET one == Len(input_event_sets) = 1
        in1 == input_event_sets[1]
        reject == [ok |-> FALSE, out |-> <<>>]
    IN  CASE node.cls = "OneToOnePassThroughNode" ->
               IF one THEN [ok |-> TRUE, out |-> <<in1>>] ELSE reject
          [] node.cls = "Unbatch" ->
               IF one /\ \A ie \in in1 : ie = BucketInt
               THEN [ok |-> TRUE, out |-> <<{IntEvent}>>] ELSE reject
          [] node.cls = "SinkEvents" ->
               IF one /\ check_events_subset_of(in1, {IntEvent})
               THEN [ok |-> TRUE, out |-> <<>>] ELSE reject
          [] node.cls = "Subgraph" ->
               IF Len(input_event_sets) = Len(node.inputs)
               THEN node.map_event_sets[input_event_sets] ELSE reject

RECURSIVE update_edge_event_sets_from(_, _, _, _, _, _)

\* the body of the loop of _update_edge_event_sets, from position i on:
\* the writes made before a node rejects its inputs stay in the _Edge objects
update_edge_event_sets_from(i, nodes, tsorted_node_ids, input_edges, output_edges, edges) ==
    IF i > Len(tsorted_node_ids) THEN [ok |-> TRUE, edges |-> edges]
    ELSE
      LET node_id == tsorted_node_ids[i]
          node == nodes[node_id + 1].node
          in_event_sets == [k \in 1..Len(input_edges[node_id]) |->
                               slot_event_set(edges, input_edges[node_id][k])]
          mapped == node_map_event_sets(node, in_event_sets)
          outs == output_edges[node_id]
          written == [r \in DOMAIN edges |->
                        IF \E k \in 1..Len(outs) : outs[k] = r
                        THEN [edges[r] EXCEPT !.event_set =
                                mapped.out[Max({k \in 1..Len(outs) : outs[k] = r})]]
                        ELSE edges[r]]
      IN  IF ~mapped.ok \/ Len(mapped.out) # Len(outs)
          THEN [ok |-> FALSE, edges |-> edges]
          ELSE update_edge_event_sets_from(i + 1, nodes, tsorted_node_ids,
                                           input_edges, output_edges, written)

\* _update_edge_event_sets: [ok, edges]; ok = FALSE when a node raised
update_edge_event_sets(nodes, tsorted_node_ids, input_edges, output_edges, edges, start_node_id) ==
    LET istart == IF start_node_id = None THEN 1
                  ELSE IndexOf(tsorted_node_ids, start_node_id)
    IN  update_edge_event_sets_from(istart, nodes, tsorted_node_ids,
                                    input_edges, output_edges, edges)

\* Graph._inputs(): the unconnected input ports, <<node id, 1-based port>>
RECURSIVE open_ports(_, _, _)
open_ports(edge_index, node_id, n_nodes) ==
    IF node_id >= n_nodes THEN <<>>
    ELSE SelectSeq([k \in 1..Len(edge_index[node_id]) |->
                       IF edge_index[node_id][k] = None THEN <<node_id, k>> ELSE <<>>],
                   LAMBDA x : x # <<>>)
         \o open_ports(edge_index, node_id + 1, n_nodes)

graph_inputs(G) == open_ports(G.input_edge_index, 0, Len(G.nodes))

\* Graph._outputs()
graph_outputs(G) == open_ports(G.output_edge_index, 0, Len(G.nodes))

\* the pseudo-edges map_event_sets puts into the open slots of a copied
\* table: slot ports[k] gets a new _Edge object holding pseudo[k]
RECURSIVE add_pseudo_edges(_, _, _, _, _)
add_pseudo_edges(k, ports, index, edges, pseudo) ==
    IF k > Len(ports) THEN [index |-> index, edges |-> edges, refs |-> <<>>]
    ELSE LET e == fresh_ref(edges)
             rest == add_pseudo_edges(
                        k + 1, ports,
                        [index EXCEPT ![ports[k][1]][ports[k][2]] = e],
                        [r \in DOMAIN edges \cup {e} |->
                            IF r = e THEN pseudo[k] ELSE edges[r]],
                        pseudo)
         IN  [index |-> rest.index, edges |-> rest.edges, refs |-> <<e>> \o rest.refs]

\* Graph.map_event_sets: [ok, out, edges]; `edges` is what the Graph's own
\* _Edge objects hold when the call ends
graph_map_event_sets(G, input_event_sets) ==
    LET ins == graph_inputs(G)
        outs == graph_outputs(G)
        incopy == deepcopy(G.input_edge_index, G.edges)
        inp == add_pseudo_edges(1, ins, incopy.index, incopy.edges,
                  [k \in 1..Len(ins) |->
                     [producer_id |-> -1, consumer_id |-> ins[k][1],
                      event_set |-> input_event_sets[k]]])
        outcopy == deepcopy(G.output_edge_index, inp.edges)
        outp == add_pseudo_edges(1, outs, outcopy.index, outcopy.edges,
                  [k \in 1..Len(outs) |->
                     [producer_id |-> outs[k][1], consumer_id |-> -1,
                      event_set |-> {}]])
        upd == update_edge_event_sets(G.nodes, G.topo_sorted_node_ids,
                                      inp.index, outp.index, outp.edges, None)
        own(edges) == [r \in DOMAIN G.edges |-> edges[r]]
    IN  IF Len(ins) # Len(input_event_sets)   \* zip(..., strict=True)
        THEN [ok |-> FALSE, out |-> <<>>, edges |-> G.edges]
        ELSE IF ~upd.ok
        THEN [ok |-> FALSE, out |-> <<>>, edges |-> own(upd.edges)]
        ELSE [ok |-> TRUE,
              out |-> [k \in 1..Len(outs) |-> upd.edges[outp.refs[k]].event_set],
              edges |-> own(upd.edges)]

\* ------------------------------------------------------------------------
\* Incremental topological order (Pearce-Kelly 2007)
\* ------------------------------------------------------------------------

\* sorted(list of ints)
RECURSIVE sorted(_)
sorted(s) ==
    IF Len(s) = 0 THEN <<>>
    ELSE LET m == CHOOSE x \in Range(s) : \A y \in Range(s) : x <= y
             i == IndexOf(s, m)
         IN  <<m>> \o sorted(SubSeq(s, 1, i - 1) \o SubSeq(s, i + 1, Len(s)))

\* list.reverse()
reverse(s) == [i \in 1..Len(s) |-> s[Len(s) + 1 - i]]

\* a forward search that takes every node of the AR
RECURSIVE find_forward_whole_region(_, _, _, _, _, _, _)
find_forward_whole_region(i, iproducer, tsorted_nodes, input_edges, edges, forward_node_ids, swappable_indices) ==
    IF i >= iproducer
    THEN [node_ids |-> forward_node_ids, indices |-> swappable_indices]
    ELSE find_forward_whole_region(i + 1, iproducer, tsorted_nodes, input_edges,
             edges, Append(forward_node_ids, tsorted_nodes[i]),
             Append(swappable_indices, i))

\* "Find nodes reachable from consumer and within the AR": positions
\* i..iproducer-1 in ascending order
RECURSIVE find_forward(_, _, _, _, _, _, _)
find_forward(i, iproducer, tsorted_nodes, input_edges, edges, forward_node_ids, swappable_indices) ==
    IF i >= iproducer
    THEN [node_ids |-> forward_node_ids, indices |-> swappable_indices]
    ELSE LET node_id == tsorted_nodes[i]
             found == \E k \in 1..Len(input_edges[node_id]) :
                         /\ input_edges[node_id][k] # None
                         /\ edges[input_edges[node_id][k]].producer_id
                               \in Range(forward_node_ids)
         IN  find_forward(i + 1, iproducer, tsorted_nodes, input_edges, edges,
                 IF found THEN Append(forward_node_ids, node_id) ELSE forward_node_ids,
                 IF found THEN Append(swappable_indices, i) ELSE swappable_indices)

\* "Find nodes that reach producer and are within the AR": positions
\* i down to iconsumer+1 in descending order
RECURSIVE find_backward(_, _, _, _, _, _, _)
find_backward(i, iconsumer, tsorted_nodes, output_edges, edges, backward_node_ids, swappable_indices) ==
    IF i <= iconsumer
    THEN [node_ids |-> backward_node_ids, indices |-> swappable_indices]
    ELSE LET node_id == tsorted_nodes[i]
             found == \E k \in 1..Len(output_edges[node_id]) :
                         /\ output_edges[node_id][k] # None
                         /\ edges[output_edges[node_id][k]].consumer_id
                               \in Range(backward_node_ids)
         IN  find_backward(i - 1, iconsumer, tsorted_nodes, output_edges, edges,
                 IF found THEN Append(backward_node_ids, node_id) ELSE backward_node_ids,
                 IF found THEN Append(swappable_indices, i) ELSE swappable_indices)

\* "Did/will we introduce a cycle (= producer reachable from consumer)?"
cycle_introduced(input_edges, edges, producer_id, forward_node_ids) ==
    \E k \in 1..Len(input_edges[producer_id]) :
        /\ input_edges[producer_id][k] # None
        /\ edges[input_edges[producer_id][k]].producer_id \in Range(forward_node_ids)

\* the affected nodes put back with those reachable from the consumer first
reordered_forward_first(tsorted_nodes, swappable_indices, backward_node_ids, forward_node_ids) ==
    LET dest_indices == sorted(swappable_indices)
        reordered_ids == forward_node_ids \o reverse(backward_node_ids)
    IN  [pos \in 1..Len(tsorted_nodes) |->
            IF \E j \in 1..Len(dest_indices) : dest_indices[j] = pos
            THEN reordered_ids[Max({j \in 1..Len(dest_indices) : dest_indices[j] = pos})]
            ELSE tsorted_nodes[pos]]

\* the whole list written back in reverse
reordered_by_reversal(tsorted_nodes, swappable_indices, backward_node_ids, forward_node_ids) ==
    reverse(tsorted_nodes)

\* "put the affected nodes in their new positions"
reordered(tsorted_nodes, swappable_indices, backward_node_ids, forward_node_ids) ==
    LET dest_indices == sorted(swappable_indices)
        reordered_ids == reverse(backward_node_ids) \o forward_node_ids
    IN  [pos \in 1..Len(tsorted_nodes) |->
            IF \E j \in 1..Len(dest_indices) : dest_indices[j] = pos
            THEN reordered_ids[Max({j \in 1..Len(dest_indices) : dest_indices[j] = pos})]
            ELSE tsorted_nodes[pos]]

\* _update_topological_order: [ok, order]; ok = FALSE is the ValueError
\* "cycle introduced in graph", raised before the list is written
update_topological_order(tsorted_nodes, input_edges, output_edges, edges, new_edge) ==
    LET producer_id == edges[new_edge].producer_id
        consumer_id == edges[new_edge].consumer_id
        iproducer == IndexOf(tsorted_nodes, producer_id)
        iconsumer == IndexOf(tsorted_nodes, consumer_id)
        fwd == find_forward(iconsumer + 1, iproducer, tsorted_nodes, input_edges,
                            edges, <<consumer_id>>, <<iconsumer, iproducer>>)
        bwd == find_backward(iproducer - 1, iconsumer, tsorted_nodes, output_edges,
                             edges, <<producer_id>>, fwd.indices)
    IN  IF iproducer < iconsumer   \* Already in order.
        THEN [ok |-> TRUE, order |-> tsorted_nodes]
        ELSE IF cycle_introduced(input_edges, edges, producer_id, fwd.node_ids)
        THEN [ok |-> FALSE, order |-> tsorted_nodes]
        ELSE [ok |-> TRUE,
              order |-> reordered(tsorted_nodes, bwd.indices, bwd.node_ids, fwd.node_ids)]

\* ------------------------------------------------------------------------
\* Graph
\* ------------------------------------------------------------------------

\* Graph.__init__
EmptyGraph ==
    [nodes |-> <<>>, node_name_index |-> <<>>, topo_sorted_node_ids |-> <<>>,
     input_edge_index |-> <<>>, output_edge_index |-> <<>>, edges |-> <<>>]

\* Graph._unique_node_name: basename-i for the first i not yet used
RECURSIVE unique_node_name(_, _, _)
unique_node_name(G, basename, i) ==
    LET name == basename \o "-" \o ToString(i)
    IN  IF name \notin DOMAIN G.node_name_index THEN name
        ELSE unique_node_name(G, basename, i + 1)

\* the reference standing for the _Edge object that connect() creates for
\* an input slot: the number of the slot among all input slots (slots never
\* go away, and a slot holds one edge at a time)
RECURSIVE edge_ref(_, _, _)
edge_ref(G, icnode, icport) ==
    IF icnode = 0 THEN icport - 1
    ELSE Len(G.input_edge_index[icnode - 1]) + edge_ref(G, icnode - 1, icport)

\* a rollback that clears the producer's slot alone
rollback_output_only(G, edge, icnode, icport, ipnode, ipport) ==
    [G EXCEPT !.output_edge_index[ipnode][ipport] = None]

\* a rollback that clears the consumer's slot alone
rollback_input_only(G, edge, icnode, icport, ipnode, ipport) ==
    [G EXCEPT !.input_edge_index[icnode][icport] = None]

\* connect()'s rollback(): both slots back to None; the _Edge object is
\* then unreferenced
rollback(G, edge, icnode, icport, ipnode, ipport) ==
    [G EXCEPT !.input_edge_index[icnode][icport] = None,
              !.output_edge_index[ipnode][ipport] = None,
              !.edges = [r \in DOMAIN G.edges \ {edge} |-> G.edges[r]]]

\* a check that finds every input port free
input_port_never_connected(G, icnode, icport) == FALSE

\* "input port already connected"
input_port_connected(G, icnode, icport) == G.input_edge_index[icnode][icport] # None

\* "output port already connected"
output_port_connected(G, ipnode, ipport) == G.output_edge_index[ipnode][ipport] # None

\* the end of a try block that raises again without rollback()
connect_updated_no_rollback(G, upd, edge, icnode, icport, ipnode, ipport) ==
    IF ~upd.ok
    THEN [g |-> [G EXCEPT !.edges = upd.edges], result |-> "type"]
    ELSE [g |-> [G EXCEPT !.edges = upd.edges], result |-> "ok"]

\* the end of connect()'s try block, given the outcome `upd` of
\* _update_edge_event_sets: an exception is answered by rollback() and
\* raised again
connect_updated(G, upd, edge, icnode, icport, ipnode, ipport) ==
    IF ~upd.ok
    THEN [g |-> rollback([G EXCEPT !.edges = upd.edges],
                         edge, icnode, icport, ipnode, ipport),
          result |-> "type"]
    ELSE [g |-> [G EXCEPT !.edges = upd.edges], result |-> "ok"]

\* connect()'s try block after _update_topological_order has left `topo`
connect_ordered(G, topo, edge, icnode, icport, ipnode, ipport) ==
    IF ~topo.ok
    THEN [g |-> rollback(G, edge, icnode, icport, ipnode, ipport),
          result |-> "cycle"]
    ELSE connect_updated(
            [G EXCEPT !.topo_sorted_node_ids = topo.order],
            update_edge_event_sets(G.nodes, topo.order, G.input_edge_index,
                                   G.output_edge_index, G.edges, icnode),
            edge, icnode, icport, ipnode, ipport)

\* the try block of Graph.connect, once the _Edge is in both tables
connect_commit(G, edge, icnode, icport, ipnode, ipport) ==
    connect_ordered(G,
        update_topological_order(G.topo_sorted_node_ids, G.input_edge_index,
                                 G.output_edge_index, G.edges, edge),
        edge, icnode, icport, ipnode, ipport)

\* the Graph with the new _Edge object `edge` in both tables
with_edge(G, edge, event_set, icnode, icport, ipnode, ipport) ==
    [G EXCEPT
       !.edges = [r \in DOMAIN G.edges \cup {edge} |->
                    IF r = edge
                    THEN [producer_id |-> ipnode, consumer_id |-> icnode,
                          event_set |-> event_set]
                    ELSE G.edges[r]],
       !.input_edge_index[icnode][icport] = edge,
       !.output_edge_index[ipnode][ipport] = edge]

\* connect() from the computation of the producer's event set on; `mapped`
\* is pnode.map_event_sets(producer_input_event_sets)
connect_mapped(G, mapped, icnode, icport, ipnode, ipport) ==
    IF ~mapped.ok
    THEN [g |-> G, result |-> "type"]
    ELSE connect_commit(
            with_edge(G, edge_ref(G, icnode, icport), mapped.out[ipport],
                      icnode, icport, ipnode, ipport),
            edge_ref(G, icnode, icport), icnode, icport, ipnode, ipport)

\* connect() once the ports are found: the two "already connected" checks,
\* then the producer's current output event set
connect_ports(G, icnode, icport, ipnode, ipport) ==
    IF ipport = 0 \/ icport = 0
    THEN [g |-> G, result |-> "port_name"]
    ELSE IF input_port_connected(G, icnode, icport)
    THEN [g |-> G, result |-> "input_connected"]
    ELSE IF output_port_connected(G, ipnode, ipport)
    THEN [g |-> G, result |-> "output_connected"]
    ELSE connect_mapped(G,
            node_map_event_sets(G.nodes[ipnode + 1].node,
                [k \in 1..Len(G.input_edge_index[ipnode]) |->
                    slot_event_set(G.edges, G.input_edge_index[ipnode][k])]),
            icnode, icport, ipnode, ipport)

\* connect() once the nodes are found: list.index of the port names
connect_nodes(G, ipnode, pport, icnode, cport) ==
    connect_ports(G, icnode, IndexOf(G.nodes[icnode + 1].node.inputs, cport),
                  ipnode, IndexOf(G.nodes[ipnode + 1].node.outputs, pport))

\* Graph.connect(producer, consumer), producer = <<pname, pport>>,
\* consumer = <<cname, cport>>: [g, result]
connect(G, producer, consumer) ==
    IF producer[1] \notin DOMAIN G.node_name_index
       \/ consumer[1] \notin DOMAIN G.node_name_index
    THEN [g |-> G, result |-> "KeyError"]
    ELSE connect_nodes(G, G.node_name_index[producer[1]], producer[2],
                       G.node_name_index[consumer[1]], consumer[2])

\* a node added with its id at the front of the order
add_node_prepend(G, node_name, node) ==
    [G EXCEPT
       !.nodes = Append(G.nodes, [name |-> node_name, node |-> node]),
       !.node_name_index = [n \in DOMAIN G.node_name_index \cup {node_name} |->
                              IF n = node_name THEN Len(G.nodes)
                              ELSE G.node_name_index[n]],
       !.topo_sorted_node_ids = <<Len(G.nodes)>> \o G.topo_sorted_node_ids,
       !.input_edge_index = [i \in DOMAIN G.input_edge_index \cup {Len(G.nodes)} |->
                               IF i = Len(G.nodes)
                               THEN [k \in 1..Len(node.inputs) |-> None]
                               ELSE G.input_edge_index[i]],
       !.output_edge_index = [i \in DOMAIN G.output_edge_index \cup {Len(G.nodes)} |->
                                IF i = Len(G.nodes)
                                THEN [k \in 1..Len(node.outputs) |-> None]
                                ELSE G.output_edge_index[i]]]

\* the node added by Graph.add_node, before its upstream/downstream are
\* connected
add_node_append(G, node_name, node) ==
    [G EXCEPT
       !.nodes = Append(G.nodes, [name |-> node_name, node |-> node]),
       !.node_name_index = [n \in DOMAIN G.node_name_index \cup {node_name} |->
                              IF n = node_name THEN (Len(G.nodes) + 1) - 1
                              ELSE G.node_name_index[n]],
       !.topo_sorted_node_ids = Append(G.topo_sorted_node_ids, (Len(G.nodes) + 1) - 1),
       !.input_edge_index = [i \in DOMAIN G.input_edge_index \cup {Len(G.nodes)} |->
                               IF i = (Len(G.nodes) + 1) - 1
                               THEN [k \in 1..Len(node.inputs) |-> None]
                               ELSE G.input_edge_index[i]],
       !.output_edge_index = [i \in DOMAIN G.output_edge_index \cup {Len(G.nodes)} |->
                                IF i = (Len(G.nodes) + 1) - 1
                                THEN [k \in 1..Len(node.outputs) |-> None]
                                ELSE G.output_edge_index[i]]]

\* what add_node leaves: the Graph, the exception of a connect() it called
\* (or "ok") and the name it returns
add_node_result(r, node_name) == [g |-> r.g, result |-> r.result, name |-> node_name]

\* add_node's "if downstream is not None: self.connect(...)", reached when
\* the connection of upstream (outcome `up`) raised nothing
add_node_downstream(up, node_name, downstream) ==
    IF up.result # "ok" \/ downstream = NoPort
    THEN add_node_result(up, node_name)
    ELSE add_node_result(connect(up.g, <<node_name, "output">>, downstream),
                         node_name)

\* add_node once the node is in the Graph (G1)
add_node_connect(G1, node_name, upstream, downstream) ==
    add_node_downstream(
        IF upstream # NoPort THEN connect(G1, upstream, <<node_name, "input">>)
        ELSE [g |-> G1, result |-> "ok"],
        node_name, downstream)

\* Graph.add_node(name, node, upstream=..., downstream=...): [g, result, name]
add_node(G, name, node, upstream, downstream) ==
    IF name # NoName /\ name \in DOMAIN G.node_name_index
    THEN [g |-> G, result |-> "name_exists", name |-> name]
    ELSE add_node_connect(
            add_node_append(G, IF name = NoName THEN unique_node_name(G, node.cls, 0)
                               ELSE name, node),
            IF name = NoName THEN unique_node_name(G, node.cls, 0) ELSE name,
            upstream, downstream)

\* Graph.add_sequence from element i of the list on, `upstream` being what
\* the loop has left in its variable: [g, result].  Element i is
\* [name, node], name = NoName for a bare node.
RECURSIVE add_sequence_from(_, _, _, _, _)
add_sequence_from(G, seq, i, upstream, downstream) ==
    IF i > Len(seq)
    THEN IF upstream # NoPort /\ downstream # NoPort
         THEN connect(G, upstream, downstream)
         ELSE [g |-> G, result |-> "ok"]
    ELSE IF Len(seq[i].node.inputs) # 1 \/ Len(seq[i].node.outputs) # 1
    THEN [g |-> G, result |-> "not_single"]
    ELSE LET added == add_node(G, seq[i].name, seq[i].node, upstream, NoPort)
         IN  IF added.result # "ok"
             THEN [g |-> added.g, result |-> added.result]
             ELSE add_sequence_from(added.g, seq, i + 1,
                                    <<added.name, "output">>, downstream)

\* add_sequence that forgets its downstream
add_sequence_without_downstream(G, seq, upstream, downstream) ==
    add_sequence_from(G, seq, 1, upstream, NoPort)

\* Graph.add_sequence(nodes, upstream=..., downstream=...): [g, result]
add_sequence(G, seq, upstream, downstream) ==
    add_sequence_from(G, seq, 1, upstream, downstream)

\* the event sets given to nodes: no event, the bucket, or its element
EventSets == {{}, {BucketInt}, {IntEvent}}

\* the lists of n event sets
EventSetLists(n) == [1..n -> EventSets]

\* Subgraph(graph): a node wrapping a deep copy of `graph`, its ports the
\* open ports of the graph, named node:port; Subgraph.map_event_sets is the
\* wrapped graph's map_event_sets, held as a table over all input lists
Subgraph(graph) ==
    [cls |-> "Subgraph",
     inputs |-> [k \in 1..Len(graph_inputs(graph)) |->
                   LET p == graph_inputs(graph)[k]
                   IN  graph.nodes[p[1] + 1].name \o ":"
                         \o graph.nodes[p[1] + 1].node.inputs[p[2]]],
     outputs |-> [k \in 1..Len(graph_outputs(graph)) |->
                    LET p == graph_outputs(graph)[k]
                    IN  graph.nodes[p[1] + 1].name \o ":"
                          \o graph.nodes[p[1] + 1].node.outputs[p[2]]],
     map_event_sets |->
        [ins \in EventSetLists(Len(graph_inputs(graph))) |->
            LET r == graph_map_event_sets(graph, ins)
            IN  [ok |-> r.ok, out |-> r.out]],
     graph |-> graph]

\* the name input_rmap (or output_rmap) has for the port (n, p), or the
\* standard name: the reversed dict keeps, of the names mapped to one port,
\* the one the map lists last
rmap_get(map, n, p) ==
    LET named == {i \in 1..Len(map) : map[i][2] = <<n, p>>}
    IN  IF named = {} THEN n \o ":" \o p ELSE map[Max(named)][1]

\* the Graph object that was passed in, kept as it is
same_graph(graph) == [is |-> "original", state |-> graph]

\* "self._graph = deepcopy(graph)": an object of its own, holding what
\* `graph` held when it was copied
deepcopy_graph(graph) == [is |-> "copy", state |-> graph]

\* Subgraph.__init__(graph, input_map=..., output_map=...): the maps are
\* lists of (name, (node, port)) in the order of the dict
subgraph_init(graph, input_map, output_map) ==
    [made |-> TRUE,
     graph |-> deepcopy_graph(graph),
     inputs |-> [k \in 1..Len(graph_inputs(graph)) |->
                   LET p == graph_inputs(graph)[k]
                   IN  rmap_get(input_map, graph.nodes[p[1] + 1].name,
                                graph.nodes[p[1] + 1].node.inputs[p[2]])],
     outputs |-> [k \in 1..Len(graph_outputs(graph)) |->
                    LET p == graph_outputs(graph)[k]
                    IN  rmap_get(output_map, graph.nodes[p[1] + 1].name,
                                 graph.nodes[p[1] + 1].node.outputs[p[2]])]]

\* no Subgraph object
NoSubgraph == [made |-> FALSE]

\* ------------------------------------------------------------------------
\* Graph.generate_cpp: the closure generated for a Graph.  The generated
\* text is kept as its parts: the placeholder parameters, one definition
\* per node (the identifiers it binds, the identifiers its expression
\* refers to), the returned identifiers and the call arguments.
\* ------------------------------------------------------------------------

\* f"proc_{next(name_ctr)}"
proc_name(n) == "proc_" \o ToString(n)

\* f"d{i}"
external_name(i) == "d" \o ToString(i)

\* no text: the call has raised
NoCode == <<>>

\* d[key] of a dict d: the marker KeyError when d has no such key
lookup(d, key) == IF key \in DOMAIN d THEN d[key] ELSE "KeyError"

\* d with the keys of more added
updated(d, more) ==
    [key \in DOMAIN d \cup DOMAIN more |->
        IF key \in DOMAIN more THEN more[key] ELSE d[key]]

\* the first exception marker among names, "ok" when there is none
first_error(names) ==
    IF \E k \in 1..Len(names) : names[k] \in {"KeyError", "ValueError"}
    THEN names[CHOOSE k \in 1..Len(names) :
                  /\ names[k] \in {"KeyError", "ValueError"}
                  /\ \A j \in 1..(k - 1) : names[j] \notin {"KeyError", "ValueError"}]
    ELSE "ok"

\* edge_list.index(edge) for _Edge objects: _Edge is a dataclass, so the
\* slots are compared with the fields of edge, not with its identity; a
\* 1-based position, 0 when no slot compares equal (ValueError)
index_of_edge(edge_list, edges, edge) ==
    IF \E k \in 1..Len(edge_list) :
          edge_list[k] # None /\ edges[edge_list[k]] = edges[edge]
    THEN CHOOSE k \in 1..Len(edge_list) :
            /\ edge_list[k] # None /\ edges[edge_list[k]] = edges[edge]
            /\ \A j \in 1..(k - 1) :
                  edge_list[j] = None \/ edges[edge_list[j]] # edges[edge]
    ELSE 0

\* {(n, p): name for (n, p), name in zip(self._outputs(), external_names)}
external_name_index(G) ==
    [p \in Range(graph_outputs(G)) |->
        external_name(IndexOf(graph_outputs(G), p) - 1)]

\* the identifier output port i of node_id is given: the placeholder of an
\* open port, the input identifier of the consumer of a connected one
node_output(G, node_id, i, external, internal) ==
    IF G.output_edge_index[node_id][i] = None
    THEN lookup(external, <<node_id, i>>)
    ELSE LET edge == G.output_edge_index[node_id][i]
             consumer_id == G.edges[edge].consumer_id
             consumer_input_idx ==
                 index_of_edge(G.input_edge_index[consumer_id], G.edges, edge)
         IN  IF consumer_input_idx = 0 THEN "ValueError"
             ELSE lookup(internal, <<consumer_id, consumer_input_idx>>)

\* an order of visit that follows the topological order
forward_order(G) == G.topo_sorted_node_ids

\* reversed(self._topo_sorted_node_ids)
visiting_order(G) == reverse(G.topo_sorted_node_ids)

\* the loop over the nodes, from position pos of order on
RECURSIVE generate_node_defs(_, _, _, _, _, _, _)
generate_node_defs(G, order, pos, external, internal, name_ctr, node_defs) ==
    IF pos > Len(order)
    THEN [result |-> "ok", internal |-> internal, node_defs |-> node_defs]
    ELSE LET node_id == order[pos]
             node == G.nodes[node_id + 1].node
             outputs == [i \in 1..Len(node.outputs) |->
                           node_output(G, node_id, i, external, internal)]
             inputs == [i \in 1..Len(node.inputs) |-> proc_name(name_ctr + i - 1)]
         IN  IF first_error(outputs) # "ok"
             THEN [result |-> first_error(outputs), internal |-> internal,
                   node_defs |-> node_defs]
             ELSE IF Len(inputs) = 0
             THEN [result |-> "IndexError",
                   internal |-> internal, node_defs |-> node_defs]
             ELSE generate_node_defs(
                     G, order, pos + 1, external,
                     updated(internal,
                             [p \in {<<node_id, i>> : i \in 1..Len(inputs)} |->
                                 inputs[p[2]]]),
                     name_ctr + Len(inputs),
                     Append(node_defs, [node_id |-> node_id, inputs |-> inputs,
                                        outputs |-> outputs]))

\* the closure text put together from the definitions of the nodes
generate_cpp_closure(G, downstreams, emitted) ==
    IF emitted.result # "ok" THEN [result |-> emitted.result, code |-> NoCode]
    ELSE LET input_refs == [k \in 1..Len(graph_inputs(G)) |->
                              lookup(emitted.internal, graph_inputs(G)[k])]
         IN  IF first_error(input_refs) # "ok"
             THEN [result |-> first_error(input_refs), code |-> NoCode]
             ELSE [result |-> "ok",
                   code |-> [params |-> [i \in 1..Len(downstreams) |->
                                           external_name(i - 1)],
                             node_defs |-> emitted.node_defs,
                             return |-> input_refs,
                             tuple |-> Len(input_refs) # 1,
                             args |-> downstreams]]

\* a generate_cpp that takes any number of downstreams
generate_cpp_unchecked(G, downstreams) ==
    generate_cpp_closure(
        G, downstreams,
        generate_node_defs(G, visiting_order(G), 1, external_name_index(G),
                           <<>>, 0, <<>>))

\* Graph.generate_cpp(name_prefix, context_varname, params_varname,
\* parameters, downstreams): [result, code]
generate_cpp(G, downstreams) ==
    IF Len(downstreams) # Len(graph_outputs(G))
    THEN [result |-> "ValueError", code |-> NoCode]
    ELSE generate_cpp_closure(
            G, downstreams,
            generate_node_defs(G, visiting_order(G), 1, external_name_index(G),
                               <<>>, 0, <<>>))

\* ------------------------------------------------------------------------
\* _odext.Builder: a build project and its stage.  A Builder value is the
\* record of its fields [stage, staged, source, target_path]; an operation
\* gives the Builder after it, the exception it raised ("ok" for none),
\* the value it returned and the meson subprocesses it launched, each with
\* its exit code.
\* ------------------------------------------------------------------------

DISCARDED == 0
CREATED == 1
CODE_WRITTEN == 2
CONFIGURED == 3
BUILT == 4

\* no source.cpp in the project directory
NoSource == <<>>

\* self._target_path before configure has set it; also the return value of
\* a call that raised
NoPath == ""

\* the paths meson-info names for the build target
TargetPaths == {"builddir/odext_target", "builddir/odext_target.so"}

\* the exit codes of a meson subprocess
ReturnCodes == {0, 1}

\* Builder.__init__, up to self._stage = self._CREATED
created_builder ==
    [stage |-> CREATED, staged |-> None, source |-> NoSource,
     target_path |-> NoPath]

\* a failed assertion: the Builder as it was, nothing launched
assertion_failed(B) ==
    [b |-> B, result |-> "AssertionError", returned |-> NoPath,
     launched |-> <<>>]

\* a set_code that puts the stage at CodeWritten whatever it was
async_set_code_restaged(B, code_text) ==
    IF ~(B.stage >= CREATED) THEN assertion_failed(B)
    ELSE [b |-> [B EXCEPT !.source = <<code_text>>, !.stage = CODE_WRITTEN],
          result |-> "ok", returned |-> NoPath, launched |-> <<>>]

\* Builder.async_set_code(code_text)
async_set_code(B, code_text) ==
    IF ~(B.stage >= CREATED) THEN assertion_failed(B)
    ELSE [b |-> [B EXCEPT !.source = <<code_text>>,
                          !.stage = IF B.stage < CODE_WRITTEN
                                    THEN CODE_WRITTEN ELSE B.stage],
          result |-> "ok", returned |-> NoPath, launched |-> <<>>]

\* Builder.__init__(code_text=code_text)
new_builder(code_text) ==
    IF code_text = NoSource THEN created_builder
    ELSE async_set_code(created_builder, code_text[1]).b

\* a configure step that takes a nonzero exit code for success
async_configure_unchecked_exit(B, returncode, target) ==
    IF target = NoPath
    THEN [b |-> B, result |-> "no_target", returned |-> NoPath,
          launched |-> <<[cmd |-> "setup", returncode |-> returncode]>>]
    ELSE [b |-> [B EXCEPT !.target_path = target, !.stage = CONFIGURED],
          result |-> "ok", returned |-> NoPath,
          launched |-> <<[cmd |-> "setup", returncode |-> returncode]>>]

\* Builder.async_configure() after its assertion: `returncode` is the exit
\* code of "meson setup", `target` the path _get_target_path finds in
\* meson-info (NoPath: it finds none and raises)
async_configure_steps(B, returncode, target) ==
    IF returncode # 0
    THEN [b |-> B, result |-> "configuration_failed", returned |-> NoPath,
          launched |-> <<[cmd |-> "setup", returncode |-> returncode]>>]
    ELSE IF target = NoPath
    THEN [b |-> B, result |-> "no_target", returned |-> NoPath,
          launched |-> <<[cmd |-> "setup", returncode |-> returncode]>>]
    ELSE [b |-> [B EXCEPT !.target_path = target, !.stage = CONFIGURED],
          result |-> "ok", returned |-> NoPath,
          launched |-> <<[cmd |-> "setup", returncode |-> returncode]>>]

\* a configure that a configured Builder takes again
async_configure_again(B, returncode, target) ==
    IF ~(B.stage >= CODE_WRITTEN) THEN assertion_failed(B)
    ELSE async_configure_steps(B, returncode, target)

\* Builder.async_configure(): [b, result, returned, launched]
async_configure(B, returncode, target) ==
    IF ~(B.stage = CODE_WRITTEN) THEN assertion_failed(B)
    ELSE async_configure_steps(B, returncode, target)

\* Builder.async_build() from "meson compile" on: `configured` is what the
\* configure step of this call, if any, has given
async_build_compile(configured, returncode) ==
    IF returncode # 0
    THEN [b |-> configured.b, result |-> "build_failed", returned |-> NoPath,
          launched |-> Append(configured.launched,
                              [cmd |-> "compile", returncode |-> returncode])]
    ELSE [b |-> [configured.b EXCEPT !.staged = BUILT],
          result |-> "ok", returned |-> configured.b.target_path,
          launched |-> Append(configured.launched,
                              [cmd |-> "compile", returncode |-> returncode])]

\* build steps that configure a configured Builder again
async_build_steps_reconfigured(B, configured, compile_returncode) ==
    IF configured.result # "ok" THEN configured
    ELSE async_build_compile(configured, compile_returncode)

\* Builder.async_build() after its assertion: the configure step, when the
\* Builder is not configured, then the compile step
async_build_steps(B, configured, compile_returncode) ==
    IF B.stage < CONFIGURED
    THEN IF configured.result # "ok" THEN configured
         ELSE async_build_compile(configured, compile_returncode)
    ELSE async_build_compile([b |-> B, launched |-> <<>>], compile_returncode)

\* a build that goes to the compile step at any stage
async_build_compile_only(B, setup_returncode, target, compile_returncode) ==
    async_build_compile([b |-> B, launched |-> <<>>], compile_returncode)

\* Builder.async_build(): [b, result, returned, launched]
async_build(B, setup_returncode, target, compile_returncode) ==
    IF ~(B.stage >= CODE_WRITTEN) THEN assertion_failed(B)
    ELSE async_build_steps(B, async_configure(B, setup_returncode, target),
                           compile_returncode)

\* a cleanup that removes the project directory and leaves the stage
cleanup_directory_only(B) == [B EXCEPT !.source = NoSource]

\* Builder.cleanup()
cleanup(B) == [B EXCEPT !.stage = DISCARDED, !.source = NoSource]

\* Builder.__exit__(exc_type, exc_value, traceback): exc_type is "None"
\* when the with-block is left normally
__exit__(B, exc_type) == cleanup(B)

\* Builder.__del__()
__del__(B) == IF B.stage > DISCARDED THEN cleanup(B) ELSE B

\* ------------------------------------------------------------------------
\* compile_graph and Context: from a Graph to a built and loaded module
\* ------------------------------------------------------------------------

\* one name for every module
module_name_fixed(n) == "libtcspc_graph_0"

\* f"libtcspc_graph_{next(_mod_ctr)}"
module_name(n) == "libtcspc_graph_" \o ToString(n)

\* CppExpression(f"output_{i}") for i in range(n)
out_proc_names(n) == [i \in 1..n |-> "output_" \o ToString(i - 1)]

\* _graph_module_code once the graph expression has been generated
graph_module_code_generated(name, G, generated) ==
    IF generated.result # "ok"
    THEN [result |-> generated.result, code |-> NoCode, g |-> G]
    ELSE [result |-> "ok",
          code |-> [module |-> name, graph_expr |-> generated.code],
          g |-> G]

\* _graph_module_code once the output event sets have been mapped
graph_module_code_mapped(name, G, mapped) ==
    IF ~mapped.ok
    THEN [result |-> "ValueError", code |-> NoCode,
          g |-> [G EXCEPT !.edges = mapped.edges]]
    ELSE graph_module_code_generated(
            name, [G EXCEPT !.edges = mapped.edges],
            generate_cpp(G, out_proc_names(Len(mapped.out))))

\* a _graph_module_code that takes a Graph with any number of open inputs
graph_module_code_unchecked(name, G, input_event_types) ==
    graph_module_code_mapped(
        name, G,
        graph_map_event_sets(G, [k \in 1..Len(graph_inputs(G)) |->
                                    input_event_types]))

\* _graph_module_code(module_name, graph, input_event_types):
\* [result, code, g]
graph_module_code(name, G, input_event_types) ==
    IF Len(graph_inputs(G)) # 1
    THEN [result |-> "not_executable", code |-> NoCode, g |-> G]
    ELSE graph_module_code_mapped(
            name, G, graph_map_event_sets(G, <<input_event_types>>))

\* the paths import_module is given by its direct callers
ImportPaths == {"a/m.py", "b/m.py", "b/m.pyc"}

\* path.suffix
suffix(path) ==
    IF path \in {"builddir/odext_target.so"} THEN ".so"
    ELSE IF path \in {"a/m.py", "b/m.py"} THEN ".py"
    ELSE IF path \in {"b/m.pyc"} THEN ".pyc"
    ELSE ""

\* final_path = self._module_path() / (name + path.suffix): the file name in
\* the importer's directory, as the pair of the name and the suffix
final_path(name, path) == <<name, suffix(path)>>

\* ExtensionImporter.import_module(name, path, ok_to_move=True):
\* `module_dir` holds the names of the files placed in the importer's
\* directory, `loads` tells whether the loader executes the module
import_module(module_dir, name, path, loads) ==
    IF final_path(name, path) \in module_dir
    THEN [result |-> "already_imported", module_dir |-> module_dir]
    ELSE [result |-> IF loads THEN "ok" ELSE "ImportError",
          module_dir |-> module_dir \cup {final_path(name, path)}]

\* compile_graph after _builder.build()
compile_graph_built(name, g, built, module_dir, loads) ==
    IF built.result # "ok"
    THEN [g |-> g, b |-> built.b, result |-> built.result, returned |-> <<>>,
          launched |-> built.launched, module_dir |-> module_dir]
    ELSE [g |-> g, b |-> built.b,
          result |-> import_module(module_dir, name, built.returned, loads).result,
          returned |-> IF import_module(module_dir, name, built.returned,
                                        loads).result = "ok"
                       THEN <<name>> ELSE <<>>,
          launched |-> built.launched,
          module_dir |-> import_module(module_dir, name, built.returned,
                                       loads).module_dir]

\* compile_graph after _builder.set_code(code)
compile_graph_code_set(name, g, code_set, module_dir, setup_returncode, target, compile_returncode, loads) ==
    IF code_set.result # "ok"
    THEN [g |-> g, b |-> code_set.b, result |-> code_set.result,
          returned |-> <<>>, launched |-> <<>>, module_dir |-> module_dir]
    ELSE compile_graph_built(
            name, g,
            async_build(code_set.b, setup_returncode, target, compile_returncode),
            module_dir, loads)

\* compile_graph after _graph_module_code
compile_graph_generated(name, B, generated, module_dir, setup_returncode, target, compile_returncode, loads) ==
    IF generated.result # "ok"
    THEN [g |-> generated.g, b |-> B, result |-> generated.result,
          returned |-> <<>>, launched |-> <<>>, module_dir |-> module_dir]
    ELSE compile_graph_code_set(
            name, generated.g, async_set_code(B, generated.code), module_dir,
            setup_returncode, target, compile_returncode, loads)

\* compile_graph(graph, input_event_types) with the module counter at
\* mod_ctr, the shared Builder B and the importer's directory module_dir:
\* [g, b, result, returned, launched, module_dir]
compile_graph(G, input_event_types, ctr, B, module_dir, setup_returncode, target, compile_returncode, loads) ==
    compile_graph_generated(
        module_name(ctr), B,
        graph_module_code(module_name(ctr), G, input_event_types),
        module_dir, setup_returncode, target, compile_returncode, loads)

\* no thread holds _build_lock
NoThread == 0

\* a lock any thread may take at any time
lock_never_held(lock) == TRUE

\* "with _build_lock:" may be entered: threading.Lock.acquire returns
lock_free(lock) == lock = NoThread

\* the local variables of a compile_graph call for `graph`, before its
\* first statement
compile_graph_locals(graph) ==
    [graph |-> graph, mod_name |-> "", code |-> NoCode, mod_path |-> NoPath,
     mod |-> NoSource]

\* ------------------------------------------------------------------------
\* _odext._async: coroutines run on the event loop of a background thread.
\* A loop is [daemon, closed, stopping, ready, ntodo, task_futures,
\* shutdown, waited]: `ready` is the queue of callbacks of the asyncio loop,
\* `ntodo` the callbacks left in its current iteration, `task_futures` the
\* set self._task_futures, `shutdown` the statement a shutdown() call is at
\* and `waited` its local list `futures`.  A future is the
\* concurrent.futures.Future of a submitted coroutine together with the
\* asyncio Task chained to it: [loop, coro, state, task, must_cancel,
\* result, proc].
\* ------------------------------------------------------------------------

\* no loop in the cache of _loop()
NoLoop == 0

\* the coroutines submitted: one that returns a value at once, one that
\* sleeps for ever, one that runs a subprocess and terminates it when
\* cancelled
Coroutines == {"set_result", "sleep_forever", "run_subprocess"}

\* the value set_result returns and the exit code of a subprocess that
\* ended by itself
ResultOf(coro) == IF coro = "set_result" THEN 42 ELSE 0

\* the states of a concurrent.futures.Future in which result() returns or
\* raises
DoneStates == {"CANCELLED", "CANCELLED_AND_NOTIFIED", "FINISHED"}

\* the states of a future that is cancelled
CancelledStates == {"CANCELLED", "CANCELLED_AND_NOTIFIED"}

\* the states concurrent.futures.wait() takes for done
NotifiedStates == {"CANCELLED_AND_NOTIFIED", "FINISHED"}

\* _BackgroundEventLoop.__init__(daemon=daemon), once latch.wait() has
\* returned: the thread runs the loop
new_loop(daemon) ==
    [daemon |-> daemon, closed |-> FALSE, stopping |-> FALSE, ready |-> <<>>,
     ntodo |-> 0, task_futures |-> {}, shutdown |-> "none", waited |-> {}]

\* loop.call_soon / call_soon_threadsafe(handle) on loop l; on a closed loop
\* it raises and nothing is queued
call_soon(Ls, l, handle) ==
    IF Ls[l].closed THEN Ls
    ELSE [Ls EXCEPT ![l].ready = Append(@, handle)]

\* a wakeup of the task of future f is in the queue of its loop
wakeup_pending(Ls, Fs, f) ==
    \E k \in 1..Len(Ls[Fs[f].loop].ready) :
       Ls[Fs[f].loop].ready[k] = [do |-> "wakeup", f |-> f]

\* the done callbacks of future f, run by the thread that cancels or
\* completes it: the lambda of submit removes f from _task_futures, and
\* _call_check_cancel, once the Task exists, passes a cancellation on to it
invoke_callbacks(Ls, Fs, f) ==
    LET l == Fs[f].loop
        removed == [Ls EXCEPT ![l].task_futures = @ \ {f}]
    IN  IF Fs[f].state = "CANCELLED" /\ Fs[f].task # "new"
        THEN call_soon(removed, l, [do |-> "cancel", f |-> f])
        ELSE removed

\* fut.cancel() on the concurrent future f: [loops, futures]
future_cancel(Ls, Fs, f) ==
    IF Fs[f].state # "PENDING" THEN [loops |-> Ls, futures |-> Fs]
    ELSE LET cancelled == [Fs EXCEPT ![f].state = "CANCELLED"]
         IN  [loops |-> invoke_callbacks(Ls, cancelled, f),
              futures |-> cancelled]

\* for fut in futures: fut.cancel()
RECURSIVE cancel_all(_, _, _)
cancel_all(Ls, Fs, fs) ==
    IF fs = {} THEN [loops |-> Ls, futures |-> Fs]
    ELSE LET f == CHOOSE x \in fs : \A y \in fs : x <= y
             c == future_cancel(Ls, Fs, f)
         IN  cancel_all(c.loops, c.futures, fs \ {f})

\* a result() that never raises
future_result_never_raises(Fs, f) == "ok"

\* fut.result(): the exception it raises when it returns from its wait, "ok"
\* for none
future_result(Fs, f) ==
    IF Fs[f].state = "FINISHED" THEN "ok" ELSE "CancelledError"

\* _BackgroundEventLoop.submit(coro) on loop l: the future is created
\* pending, the callback that creates its Task is queued, the future is put
\* into _task_futures with its done callback
loop_submit(Ls, Fs, l, coro) ==
    [loops |-> [call_soon(Ls, l, [do |-> "create", f |-> Len(Fs) + 1])
                   EXCEPT ![l].task_futures = @ \cup {Len(Fs) + 1}],
     futures |-> Append(Fs,
                    [loop |-> l, coro |-> coro, state |-> "PENDING",
                     task |-> "new", must_cancel |-> FALSE, result |-> None,
                     proc |-> "none"])]

\* the callback run_coroutine_threadsafe has queued: ensure_future creates
\* the Task, whose first step is queued, and _chain_future ties it to the
\* future; for a future cancelled by then, _call_check_cancel runs at once
callback(Ls, Fs, f) ==
    LET created == [Fs EXCEPT ![f].task = "start"]
        stepped == call_soon(Ls, Fs[f].loop, [do |-> "step", f |-> f])
    IN  [loops |-> IF Fs[f].state = "CANCELLED"
                   THEN call_soon(stepped, Fs[f].loop, [do |-> "cancel", f |-> f])
                   ELSE stepped,
         futures |-> created]

\* the Task of f is done, with a result or cancelled: its done callback
\* _call_set_state is queued
task_done(Ls, Fs, f, how) ==
    [loops |-> call_soon(Ls, Fs[f].loop, [do |-> "set_state", f |-> f]),
     futures |-> [Fs EXCEPT ![f].task = how, ![f].must_cancel = FALSE]]

\* the first step of the Task of f: the coroutine runs to its first await
\* that suspends, or to its end
task_step(Ls, Fs, f) ==
    IF Fs[f].coro = "set_result" THEN task_done(Ls, Fs, f, "finished")
    ELSE IF Fs[f].coro = "sleep_forever"
    THEN [loops |-> Ls, futures |-> [Fs EXCEPT ![f].task = "await"]]
    ELSE [loops |-> Ls,
          futures |-> [Fs EXCEPT ![f].task = "await", ![f].proc = "alive"]]

\* Task.cancel(): the future the Task waits for is cancelled, which wakes
\* the Task; the step that wakes it throws CancelledError into the coroutine
task_cancel(Ls, Fs, f) ==
    IF Fs[f].task \in {"finished", "cancelled"}
    THEN [loops |-> Ls, futures |-> Fs]
    ELSE [loops |-> IF wakeup_pending(Ls, Fs, f) THEN Ls
                    ELSE call_soon(Ls, Fs[f].loop, [do |-> "wakeup", f |-> f]),
          futures |-> [Fs EXCEPT ![f].must_cancel = TRUE]]

\* an except branch that re-raises without terminating the subprocess
task_throw_unterminated(Ls, Fs, f) ==
    task_done(Ls, Fs, f, "cancelled")

\* an except branch that terminates the subprocess and re-raises without
\* awaiting proc.wait()
task_throw_without_wait(Ls, Fs, f) ==
    IF Fs[f].coro = "run_subprocess" /\ Fs[f].task = "await"
                                     /\ Fs[f].proc = "alive"
    THEN task_done(Ls, [Fs EXCEPT ![f].proc = "signalled"], f, "cancelled")
    ELSE task_done(Ls, Fs, f, "cancelled")

\* CancelledError thrown into the coroutine of f where it is suspended:
\* run_subprocess, at communicate(), terminates its subprocess and awaits
\* proc.wait() before it re-raises; the others let it through
task_throw(Ls, Fs, f) ==
    IF Fs[f].coro = "run_subprocess" /\ Fs[f].task = "await"
                                     /\ Fs[f].proc = "alive"
    THEN [loops |-> Ls,
          futures |-> [Fs EXCEPT ![f].task = "cleanup", ![f].must_cancel = FALSE,
                                 ![f].proc = "signalled"]]
    ELSE task_done(Ls, Fs, f, "cancelled")

\* the Task of f is woken where it is suspended
task_wakeup(Ls, Fs, f) ==
    IF Fs[f].task \in {"finished", "cancelled"}
    THEN [loops |-> Ls, futures |-> Fs]
    ELSE IF Fs[f].must_cancel THEN task_throw(Ls, Fs, f)
    ELSE IF Fs[f].task = "cleanup" THEN task_done(Ls, Fs, f, "cancelled")
    ELSE task_done(Ls, Fs, f, "finished")

\* _call_set_state of _chain_future: the state of the Task that is done is
\* copied to the concurrent future, which runs its done callbacks; a
\* cancelled future is marked as notified
call_set_state(Ls, Fs, f) ==
    IF Fs[f].state = "CANCELLED"
    THEN [loops |-> Ls,
          futures |-> [Fs EXCEPT ![f].state = "CANCELLED_AND_NOTIFIED"]]
    ELSE IF Fs[f].state # "PENDING" THEN [loops |-> Ls, futures |-> Fs]
    ELSE IF Fs[f].task = "cancelled"
    THEN [loops |-> invoke_callbacks(Ls, Fs, f),
          futures |-> [Fs EXCEPT ![f].state = "CANCELLED_AND_NOTIFIED"]]
    ELSE [loops |-> invoke_callbacks(Ls, Fs, f),
          futures |-> [Fs EXCEPT ![f].state = "FINISHED",
                                 ![f].result = ResultOf(Fs[f].coro)]]

\* the callback `handle` run by its loop l
run_handle(Ls, Fs, l, handle) ==
    IF handle.do = "create" THEN callback(Ls, Fs, handle.f)
    ELSE IF handle.do = "step" THEN task_step(Ls, Fs, handle.f)
    ELSE IF handle.do = "cancel" THEN task_cancel(Ls, Fs, handle.f)
    ELSE IF handle.do = "wakeup" THEN task_wakeup(Ls, Fs, handle.f)
    ELSE IF handle.do = "set_state" THEN call_set_state(Ls, Fs, handle.f)
    ELSE IF handle.do = "stop_create"
    THEN [loops |-> call_soon(Ls, l, [do |-> "stop_loop", f |-> 0]),
          futures |-> Fs]
    ELSE [loops |-> [Ls EXCEPT ![l].stopping = TRUE], futures |-> Fs]

\* loop.run_forever() runs the callback at the head of its queue
run_callback(Ls, Fs, l) ==
    run_handle([Ls EXCEPT ![l].ready = Tail(@)], Fs, l, Head(Ls[l].ready))

\* one callback of an iteration of loop.run_forever(): an iteration runs the
\* callbacks that are ready when it begins, in their order
run_once(Ls, Fs, l) ==
    run_callback([Ls EXCEPT ![l].ntodo = (IF @ = 0 THEN Len(Ls[l].ready) ELSE @) - 1],
                 Fs, l)

\* the done callback submit() adds: self._task_futures.remove(f); where f is
\* not in the set it raises KeyError, which concurrent.futures logs
done_callback(Ls, Fs, f) == [Ls EXCEPT ![Fs[f].loop].task_futures = @ \ {f}]

\* one callback of an iteration of loop.run_forever(), with the two halves
\* of Future.set_result() told apart: _call_set_state marks the concurrent
\* future of a Task that has finished as FINISHED and wakes the threads
\* that wait for it, and the loop thread invokes the done callbacks of the
\* future after that, as its next step
run_once_stepwise(Ls, Fs, l) ==
    LET handle == Head(Ls[l].ready)
        rest == [Ls EXCEPT ![l].ntodo = (IF @ = 0 THEN Len(Ls[l].ready) ELSE @) - 1,
                           ![l].ready = Tail(@)]
    IN  IF /\ handle.do = "set_state"
           /\ Fs[handle.f].state = "PENDING"
           /\ Fs[handle.f].task = "finished"
        THEN [loops |-> [rest EXCEPT
                           ![l].ready = <<[do |-> "invoke_callbacks",
                                           f |-> handle.f]>> \o @,
                           ![l].ntodo = @ + 1],
              futures |-> [Fs EXCEPT ![handle.f].state = "FINISHED",
                                     ![handle.f].result = ResultOf(Fs[handle.f].coro)]]
        ELSE IF handle.do = "invoke_callbacks"
        THEN [loops |-> done_callback(rest, Fs, handle.f), futures |-> Fs]
        ELSE run_handle(rest, Fs, l, handle)

\* the subprocess of f has exited: the Task that waits for it is woken
process_exited(Ls, Fs, f) ==
    [loops |-> IF Fs[f].task \in {"await", "cleanup"} /\ ~wakeup_pending(Ls, Fs, f)
               THEN call_soon(Ls, Fs[f].loop, [do |-> "wakeup", f |-> f])
               ELSE Ls,
     futures |-> [Fs EXCEPT ![f].proc = "exited"]]

\* a shutdown that stops the loop without cancelling the futures
shutdown_without_cancel(Ls, Fs, l) ==
    [loops |-> [Ls EXCEPT ![l].shutdown = "wait", ![l].waited = {}],
     futures |-> Fs]

\* _BackgroundEventLoop.shutdown(), to the end of its for-loop: the futures
\* of _task_futures are copied and cancelled
shutdown_cancel(Ls, Fs, l) ==
    [loops |-> [cancel_all(Ls, Fs, Ls[l].task_futures).loops
                   EXCEPT ![l].shutdown = "wait",
                          ![l].waited = Ls[l].task_futures],
     futures |-> cancel_all(Ls, Fs, Ls[l].task_futures).futures]

\* concurrent.futures.wait(futures) returns
wait_returns(Ls, Fs, l) ==
    \A f \in Ls[l].waited : Fs[f].state \in NotifiedStates

\* _BackgroundEventLoop.shutdown() after wait(): _task_futures is cleared
\* and stop_loop() is submitted; a daemon loop is not joined
shutdown_stop(Ls, l) ==
    [call_soon(Ls, l, [do |-> "stop_create", f |-> 0])
        EXCEPT ![l].task_futures = {},
               ![l].shutdown = IF Ls[l].daemon THEN "returned" ELSE "join"]

\* ------------------------------------------------------------------------
\* ExecutionContext and Context: a single run of stream processing.  Both
\* classes have the same _manage_processor_end_of_life, handle and flush.
\* An operation returns [result, reason, reached]: the exception raised
\* ("ok" for none), the new self._end_of_life_reason and the methods of the
\* processor it called.
\* ------------------------------------------------------------------------

\* self._end_of_life_reason = None
NoReason == ""

\* the events given to handle(): an int, and an object with the buffer
\* protocol
Events == {"int", "buffer"}

\* what a method of the processor does: it returns, throws
\* tcspc::end_of_processing, or throws another exception
ProcOutcomes == {"ok", "end_of_processing", "exception"}

\* a check of the end of life that never refuses
never_expired(reason) == FALSE

\* if self._end_of_life_reason:
expired(reason) == reason # NoReason

\* a context manager that records the end of the stream only, and lets any
\* other exception through as it is
manage_processor_end_of_stream_only(reason, method, proc_does) ==
    IF expired(reason)
    THEN [result |-> "RuntimeError", reason |-> reason, reached |-> <<>>]
    ELSE IF proc_does = "end_of_processing"
    THEN [result |-> "EndOfProcessing",
          reason |-> "finished by detecting end of stream",
          reached |-> <<method>>]
    ELSE IF proc_does = "exception"
    THEN [result |-> "exception", reason |-> reason, reached |-> <<method>>]
    ELSE [result |-> "ok", reason |-> reason, reached |-> <<method>>]

\* with self._manage_processor_end_of_life(): self._proc.<method>(...),
\* `proc_does` being what the processor does if it is called
manage_processor_end_of_life(reason, method, proc_does) ==
    IF expired(reason)
    THEN [result |-> "RuntimeError", reason |-> reason, reached |-> <<>>]
    ELSE IF proc_does = "end_of_processing"
    THEN [result |-> "EndOfProcessing",
          reason |-> "finished by detecting end of stream",
          reached |-> <<method>>]
    ELSE IF proc_does = "exception"
    THEN [result |-> "exception", reason |-> "finished with error",
          reached |-> <<method>>]
    ELSE [result |-> "ok", reason |-> reason, reached |-> <<method>>]

\* ExecutionContext.handle(event), Context.handle(event)
handle(reason, event, proc_does) ==
    manage_processor_end_of_life(
       reason, IF event = "buffer" THEN "handle_buffer" ELSE "handle", proc_does)

\* ExecutionContext.flush(), Context.flush()
flush(reason, proc_does) ==
    IF manage_processor_end_of_life(reason, "flush", proc_does).result = "ok"
    THEN [manage_processor_end_of_life(reason, "flush", proc_does)
             EXCEPT !.reason = "flushed"]
    ELSE manage_processor_end_of_life(reason, "flush", proc_does)

\* Context.__init__(graph): the exception it raises
context_init(G) ==
    IF Len(graph_inputs(G)) # 1 THEN "not_executable"
    ELSE IF Len(graph_outputs(G)) > 0 THEN "has_outputs"
    ELSE "TypeError"

\* ------------------------------------------------------------------------
\* State machine: one Graph driven through its public operations.  `call`
\* is the call last made and its arguments, `result` the exception it
\* raised ("ok" for none), `returned` the value of map_event_sets.
\* ------------------------------------------------------------------------

VARIABLES nodes, node_name_index, topo_sorted_node_ids, input_edge_index,
          output_edge_index, edges, call, result, returned

\* the fields of one Builder; `setup_launches` counts the "meson setup"
\* subprocesses launched for it so far, `launched` lists the subprocesses
\* the call last made has launched
VARIABLES stage, staged, source, target_path, setup_launches, launched

builder_vars == <<stage, staged, source, target_path, setup_launches>>

\* the module counter of compile_graph and the names of the artifacts in
\* the directory of its ExtensionImporter
VARIABLES mod_ctr, module_dir

compile_vars == <<mod_ctr, module_dir>>

\* the threads in compile_graph: `build_lock` is the thread that holds
\* _build_lock, `stmt` the statement each thread is at, `locals` the local
\* variables of its call, `outcome` the exception its last call raised
\* ("ok" for none), `running` the meson subprocesses that have been launched
\* and have not exited, `artifact` the source the file at the target path
\* was compiled from
VARIABLES build_lock, stmt, locals, outcome, running, artifact

lock_vars == <<build_lock, stmt, locals, outcome, running, artifact>>

\* _odext._async: `loop_cache` is the cache of _loop(), `loops` the
\* _BackgroundEventLoop objects constructed, `futures` the futures of the
\* submitted coroutines with their Tasks, `submits` the statement each
\* thread is at in submit()
VARIABLES loop_cache, loops, futures, submits

async_vars == <<loop_cache, loops, futures, submits>>

\* an execution context: its `_end_of_life_reason`, the events its
\* processor has been given (`handled`), and the methods of the processor
\* the last call `reached`
VARIABLES end_of_life_reason, handled, reached

exec_vars == <<end_of_life_reason, handled, reached>>

\* the Subgraph object a caller has constructed from the Graph
VARIABLES subgraph

wrap_vars == <<subgraph>>

graph_vars == <<nodes, node_name_index, topo_sorted_node_ids, input_edge_index,
                output_edge_index, edges>>

vars == <<nodes, node_name_index, topo_sorted_node_ids, input_edge_index,
          output_edge_index, edges, call, result, returned,
          stage, staged, source, target_path, setup_launches, launched,
          mod_ctr, module_dir,
          build_lock, stmt, locals, outcome, running, artifact,
          loop_cache, loops, futures, submits,
          end_of_life_reason, handled, reached, subgraph>>

\* the Builder object of the current state
Builder ==
    [stage |-> stage, staged |-> staged, source |-> source,
     target_path |-> target_path]

\* the Builder object of the next state
BuilderNext ==
    [stage |-> stage', staged |-> staged', source |-> source',
     target_path |-> target_path']

\* the current state holds the Builder B
BuilderIs(B) ==
    /\ stage = B.stage
    /\ staged = B.staged
    /\ source = B.source
    /\ target_path = B.target_path

\* the next state holds the Builder B
SetBuilder(B) ==
    /\ stage' = B.stage
    /\ staged' = B.staged
    /\ source' = B.source
    /\ target_path' = B.target_path

\* the Graph object of the current state
Graph ==
    [nodes |-> nodes, node_name_index |-> node_name_index,
     topo_sorted_node_ids |-> topo_sorted_node_ids,
     input_edge_index |-> input_edge_index,
     output_edge_index |-> output_edge_index, edges |-> edges]

\* the Graph object of the next state
GraphNext ==
    [nodes |-> nodes', node_name_index |-> node_name_index',
     topo_sorted_node_ids |-> topo_sorted_node_ids',
     input_edge_index |-> input_edge_index',
     output_edge_index |-> output_edge_index', edges |-> edges']

SetGraph(G) ==
    /\ nodes' = G.nodes
    /\ node_name_index' = G.node_name_index
    /\ topo_sorted_node_ids' = G.topo_sorted_node_ids
    /\ input_edge_index' = G.input_edge_index
    /\ output_edge_index' = G.output_edge_index
    /\ edges' = G.edges

\* SinkEvents in a Subgraph together with a pass-through node: a node with
\* two input ports ("a:input", "b:input") and one output port ("a:output")
PassThroughAndSink ==
    add_node(add_node(EmptyGraph, "a", PassThroughNode, NoPort, NoPort).g,
             "b", SinkEventsNode, NoPort, NoPort).g

SubgraphNode == Subgraph(PassThroughAndSink)

\* the nodes callers add
NodeValues == {UnbatchNode, SubgraphNode}

\* the explicit node names callers use: the names used so far and a new one
NameOf(i) == "n" \o ToString(i)

\* a node name no node has, and a port name no node has
MissingName == "missing"
MissingPort == "nosuch"

\* the (node name, port name) pairs naming the output ports of nodes I
OutputPorts(I) ==
    UNION {{<<nodes[i].name, pt>> : pt \in Range(nodes[i].node.outputs)} :
              i \in I}

\* the same for input ports
InputPorts(I) ==
    UNION {{<<nodes[i].name, pt>> : pt \in Range(nodes[i].node.inputs)} :
              i \in I}

\* the node added last, if any
LastNode == {Len(nodes)} \ {0}

\* producers that connect cannot look up: a port name the last node does not
\* have, and the name of no node
BadProducers ==
    {<<nodes[i].name, MissingPort>> : i \in LastNode}
    \cup {<<MissingName, "output">>}

\* the same for a consumer
BadConsumers ==
    {<<nodes[i].name, MissingPort>> : i \in LastNode}
    \cup {<<MissingName, "input">>}

\* what callers pass as a producer, and as a consumer
ProducerInputs == OutputPorts(1..Len(nodes)) \cup BadProducers
ConsumerInputs == InputPorts(1..Len(nodes)) \cup BadConsumers

\* the (producer, consumer) pairs callers pass to connect: every output port
\* with every input port, and each bad argument with the ports of the last
\* node and with the bad arguments of the other side
ConnectInputs ==
    (OutputPorts(1..Len(nodes)) \X InputPorts(1..Len(nodes)))
    \cup (BadProducers \X (InputPorts(LastNode) \cup BadConsumers))
    \cup (OutputPorts(LastNode) \X BadConsumers)

\* the candidate event sets given to Graph.map_event_sets
CandidateSets == EventSets

\* candidate lists for n open input ports: all ports alike, or only the
\* first port differing from the empty set, or a list that is one too long
Candidates(n) ==
    {[k \in 1..n |-> s] : s \in CandidateSets}
    \cup {[k \in 1..n |-> IF k = 1 THEN s ELSE {}] : s \in CandidateSets}
    \cup {[k \in 1..(n + 1) |-> {}]}

\* no call is in progress: the caller is between two calls
Idle == [op |-> "idle"]

\* the threads that call compile_graph
Threads == 1..MaxThreads

\* _build_lock = threading.Lock(), no thread in compile_graph, no
\* subprocess running, nothing built
LockInit ==
    /\ build_lock = NoThread
    /\ stmt = [t \in Threads |-> "idle"]
    /\ locals = [t \in Threads |-> compile_graph_locals(EmptyGraph)]
    /\ outcome = [t \in Threads |-> "none"]
    /\ running = {}
    /\ artifact = NoSource

\* a thread outside submit()
NotSubmitting == [at |-> "idle", loop |-> NoLoop, coro |-> ""]

\* no Subgraph has been constructed
WrapInit == subgraph = NoSubgraph

\* an execution context as __init__ leaves it
ExecInit ==
    /\ end_of_life_reason = NoReason
    /\ handled = <<>>
    /\ reached = <<>>

\* no loop constructed, nothing cached or submitted
AsyncInit ==
    /\ loop_cache = NoLoop
    /\ loops = <<>>
    /\ futures = <<>>
    /\ submits = [t \in Threads |-> NotSubmitting]

Init ==
    /\ nodes = EmptyGraph.nodes
    /\ node_name_index = EmptyGraph.node_name_index
    /\ topo_sorted_node_ids = EmptyGraph.topo_sorted_node_ids
    /\ input_edge_index = EmptyGraph.input_edge_index
    /\ output_edge_index = EmptyGraph.output_edge_index
    /\ edges = EmptyGraph.edges
    /\ call = Idle
    /\ result = "none"
    /\ returned = <<>>
    /\ launched = <<>>
    /\ BuilderIs(created_builder)
    /\ setup_launches = 0
    /\ mod_ctr = 0
    /\ module_dir = {}
    /\ LockInit
    /\ AsyncInit
    /\ ExecInit
    /\ WrapInit

\* g.add_node(name, node, upstream=upstream, downstream=downstream)
AddNode(name, node, upstream, downstream) ==
    /\ call = Idle
    /\ UNCHANGED builder_vars
    /\ UNCHANGED compile_vars
    /\ UNCHANGED lock_vars
    /\ UNCHANGED async_vars
    /\ UNCHANGED exec_vars
    /\ UNCHANGED wrap_vars
    /\ launched' = <<>>
    /\ Len(nodes) < MaxNodes
    /\ LET r == add_node(Graph, name, node, upstream, downstream)
       IN  /\ SetGraph(r.g)
           /\ call' = [op |-> "add_node", name |-> name, node |-> node,
                       upstream |-> upstream, downstream |-> downstream]
           /\ result' = r.result
           /\ returned' = <<>>

\* g.connect(producer, consumer)
Connect(producer, consumer) ==
    /\ call = Idle
    /\ UNCHANGED builder_vars
    /\ UNCHANGED compile_vars
    /\ UNCHANGED lock_vars
    /\ UNCHANGED async_vars
    /\ UNCHANGED exec_vars
    /\ UNCHANGED wrap_vars
    /\ launched' = <<>>
    /\ LET r == connect(Graph, producer, consumer)
       IN  /\ SetGraph(r.g)
           /\ call' = [op |-> "connect", producer |-> producer,
                       consumer |-> consumer]
           /\ result' = r.result
           /\ returned' = <<>>

\* g.map_event_sets(input_event_sets)
MapEventSets(input_event_sets) ==
    /\ call = Idle
    /\ UNCHANGED builder_vars
    /\ UNCHANGED compile_vars
    /\ UNCHANGED lock_vars
    /\ UNCHANGED async_vars
    /\ UNCHANGED exec_vars
    /\ UNCHANGED wrap_vars
    /\ launched' = <<>>
    /\ LET r == graph_map_event_sets(Graph, input_event_sets)
       IN  /\ SetGraph([Graph EXCEPT !.edges = r.edges])
           /\ call' = [op |-> "map_event_sets",
                       input_event_sets |-> input_event_sets]
           /\ result' = IF r.ok THEN "ok" ELSE "ValueError"
           /\ returned' = r.out

\* the caller has taken the value or the exception of the call and is ready
\* for its next call
Return ==
    /\ call # Idle
    /\ call' = Idle
    /\ result' = "none"
    /\ returned' = <<>>
    /\ launched' = <<>>
    /\ UNCHANGED graph_vars
    /\ UNCHANGED builder_vars
    /\ UNCHANGED compile_vars
    /\ UNCHANGED lock_vars
    /\ UNCHANGED async_vars
    /\ UNCHANGED exec_vars
    /\ UNCHANGED wrap_vars

\* g.add_sequence(seq, upstream=upstream, downstream=downstream)
AddSequence(seq, upstream, downstream) ==
    /\ call = Idle
    /\ UNCHANGED builder_vars
    /\ UNCHANGED compile_vars
    /\ UNCHANGED lock_vars
    /\ UNCHANGED async_vars
    /\ UNCHANGED exec_vars
    /\ UNCHANGED wrap_vars
    /\ launched' = <<>>
    /\ Len(nodes) < MaxNodes
    /\ Len(nodes) + Len(seq) <= MaxNodes
    /\ LET r == add_sequence(Graph, seq, upstream, downstream)
       IN  /\ SetGraph(r.g)
           /\ call' = [op |-> "add_sequence", nodes |-> seq,
                       upstream |-> upstream, downstream |-> downstream]
           /\ result' = r.result
           /\ returned' = <<>>

Next ==
    \/ \E name \in {NameOf(i) : i \in 0..Len(nodes)}, node \in NodeValues :
          AddNode(name, node, NoPort, NoPort)
    \/ \E node \in NodeValues,
          upstream \in {NoPort} \cup ProducerInputs,
          downstream \in {NoPort} \cup ConsumerInputs :
          AddNode(NameOf(Len(nodes)), node, upstream, downstream)
    \/ \E pc \in ConnectInputs : Connect(pc[1], pc[2])
    \/ \E input_event_sets \in Candidates(Len(graph_inputs(Graph))) :
          MapEventSets(input_event_sets)
    \/ Return

Spec == Init /\ [][Next]_vars

\* ------------------------------------------------------------------------
\* State machine: a Graph built from single nodes and from sequences
\* ------------------------------------------------------------------------

\* the elements of the lists given to add_sequence: bare nodes with one
\* port each way and with two input ports, and a (name, node) pair
SeqElements ==
    {[name |-> NoName, node |-> n] : n \in {PassThroughNode, SubgraphNode}}
    \cup {[name |-> "s", node |-> PassThroughNode]}

\* the lists given to add_sequence
SeqInputs == UNION {[1..n -> SeqElements] : n \in 0..MaxSeq}

SeqNext ==
    \/ \E node \in {PassThroughNode, UnbatchNode} :
          AddNode(NameOf(Len(nodes)), node, NoPort, NoPort)
    \/ \E seq \in SeqInputs,
          upstream \in {NoPort} \cup OutputPorts(1..Len(nodes)),
          downstream \in {NoPort} \cup InputPorts(1..Len(nodes)) :
          AddSequence(seq, upstream, downstream)
    \/ Return

SeqSpec == Init /\ [][SeqNext]_vars

\* ------------------------------------------------------------------------
\* State machine: a Graph built node by node, each node connected as it is
\* added, and the code generated for it
\* ------------------------------------------------------------------------

TwoPassThroughs ==
    add_node(add_node(EmptyGraph, "a", PassThroughNode, NoPort, NoPort).g,
             "b", PassThroughNode, NoPort, NoPort).g

\* a node with two input and two output ports
ParallelNode == Subgraph(TwoPassThroughs)

\* a node with no port at all
EmptySubgraphNode == Subgraph(EmptyGraph)

\* the nodes of the Graphs code is generated for
GenNodes == {PassThroughNode, SubgraphNode, ParallelNode, EmptySubgraphNode}

\* the downstream expressions given to generate_cpp: as many as the Graph
\* has open output ports, fewer, or one more
DownstreamLists ==
    {[i \in 1..n |-> "output_" \o ToString(i - 1)] :
        n \in 0..(Len(graph_outputs(Graph)) + 1)}

\* g.generate_cpp(name_prefix, context_varname, params_varname,
\* downstreams=downstreams)
GenerateCpp(downstreams) ==
    /\ call = Idle
    /\ UNCHANGED builder_vars
    /\ UNCHANGED compile_vars
    /\ UNCHANGED lock_vars
    /\ UNCHANGED async_vars
    /\ UNCHANGED exec_vars
    /\ UNCHANGED wrap_vars
    /\ launched' = <<>>
    /\ LET r == generate_cpp(Graph, downstreams)
       IN  /\ call' = [op |-> "generate_cpp", downstreams |-> downstreams]
           /\ result' = r.result
           /\ returned' = r.code
    /\ UNCHANGED graph_vars

GenNext ==
    \/ \E node \in GenNodes,
          upstream \in {NoPort} \cup OutputPorts(1..Len(nodes)),
          downstream \in {NoPort} \cup InputPorts(1..Len(nodes)) :
          AddNode(NameOf(Len(nodes)), node, upstream, downstream)
    \/ \E downstreams \in DownstreamLists : GenerateCpp(downstreams)
    \/ Return

GenSpec == Init /\ [][GenNext]_vars

\* the same with the nodes added unconnected and connected port by port
\* afterwards, for the given number of downstreams
GenConnectNext ==
    \/ \E node \in {PassThroughNode, ParallelNode} :
          AddNode(NameOf(Len(nodes)), node, NoPort, NoPort)
    \/ \E pc \in OutputPorts(1..Len(nodes)) \X InputPorts(1..Len(nodes)) :
          Connect(pc[1], pc[2])
    \/ GenerateCpp([i \in 1..Len(graph_outputs(Graph)) |->
                       "output_" \o ToString(i - 1)])
    \/ Return

GenConnectSpec == Init /\ [][GenConnectNext]_vars

\* ------------------------------------------------------------------------
\* State machine: a Graph that is wrapped in a Subgraph while it is built
\* ------------------------------------------------------------------------

\* what the Graph object `object` holds now: the original is the Graph the
\* caller goes on to change
held_graph(object) == IF object.is = "original" THEN Graph ELSE object.state

\* Subgraph.map_event_sets(input_event_sets) of the Subgraph constructed
subgraph_map_event_sets(input_event_sets) ==
    LET r == graph_map_event_sets(held_graph(subgraph.graph), input_event_sets)
    IN  [ok |-> r.ok, out |-> r.out]

\* the maps given to Subgraph(), input map and output map: none; a new
\* name for the input of the first node and two for its output; a name for
\* an input port no node has
WrapMaps ==
    {<<<<>>, <<>>>>,
     <<<<<<"renamed", <<NameOf(0), "input">>>>>>,
       <<<<"first", <<NameOf(0), "output">>>>,
         <<"second", <<NameOf(0), "output">>>>>>>>,
     <<<<<<"other", <<MissingName, "input">>>>>>, <<>>>>}

\* sg = Subgraph(g, input_map=input_map, output_map=output_map), once
Wrap(input_map, output_map) ==
    /\ call = Idle
    /\ ~subgraph.made
    /\ subgraph' = subgraph_init(Graph, input_map, output_map)
    /\ call' = [op |-> "Subgraph", input_map |-> input_map,
                output_map |-> output_map]
    /\ result' = "ok"
    /\ returned' = <<>>
    /\ launched' = <<>>
    /\ UNCHANGED graph_vars
    /\ UNCHANGED builder_vars
    /\ UNCHANGED compile_vars
    /\ UNCHANGED lock_vars
    /\ UNCHANGED async_vars
    /\ UNCHANGED exec_vars

WrapNext ==
    \/ \E node \in {PassThroughNode, UnbatchNode} :
          AddNode(NameOf(Len(nodes)), node, NoPort, NoPort)
    \/ \E pc \in OutputPorts(1..Len(nodes)) \X InputPorts(1..Len(nodes)) :
          Connect(pc[1], pc[2])
    \/ \E maps \in WrapMaps : Wrap(maps[1], maps[2])
    \/ Return

WrapSpec == Init /\ [][WrapNext]_vars

\* ------------------------------------------------------------------------
\* State machine: one Builder driven through set_code, configure, build
\* and cleanup, each meson subprocess ending with any exit code
\* ------------------------------------------------------------------------

\* the source texts given to a Builder
CodeTexts == {"int main() { return 0; }", "int main() { return 0 }"}

\* the "meson setup" subprocesses among the launched ones
setups(launches) == SelectSeq(launches, LAMBDA l : l.cmd = "setup")

\* the state after the call op that gave r on the Builder
Called(op, r) ==
    /\ SetBuilder(r.b)
    /\ call' = op
    /\ result' = r.result
    /\ returned' = r.returned
    /\ launched' = r.launched
    /\ setup_launches' = setup_launches + Len(setups(r.launched))
    /\ UNCHANGED graph_vars
    /\ UNCHANGED compile_vars
    /\ UNCHANGED lock_vars
    /\ UNCHANGED async_vars
    /\ UNCHANGED exec_vars
    /\ UNCHANGED wrap_vars

\* Builder(code_text=code_text): a Builder constructed with or without a
\* source text
BuilderInit ==
    /\ nodes = EmptyGraph.nodes
    /\ node_name_index = EmptyGraph.node_name_index
    /\ topo_sorted_node_ids = EmptyGraph.topo_sorted_node_ids
    /\ input_edge_index = EmptyGraph.input_edge_index
    /\ output_edge_index = EmptyGraph.output_edge_index
    /\ edges = EmptyGraph.edges
    /\ call = Idle
    /\ result = "none"
    /\ returned = <<>>
    /\ launched = <<>>
    /\ \E code_text \in {NoSource} \cup {<<t>> : t \in CodeTexts} :
          BuilderIs(new_builder(code_text))
    /\ setup_launches = 0
    /\ mod_ctr = 0
    /\ module_dir = {}
    /\ LockInit
    /\ AsyncInit
    /\ ExecInit
    /\ WrapInit

\* builder.set_code(code_text)
SetCode(code_text) ==
    /\ call = Idle
    /\ Called([op |-> "set_code", code_text |-> code_text],
              async_set_code(Builder, code_text))

\* builder.configure()
Configure(returncode, target) ==
    /\ call = Idle
    /\ setup_launches < MaxSetups
    /\ Called([op |-> "configure"],
              async_configure(Builder, returncode, target))

\* builder.build()
Build(setup_returncode, target, compile_returncode) ==
    /\ call = Idle
    /\ setup_launches < MaxSetups
    /\ Called([op |-> "build"],
              async_build(Builder, setup_returncode, target,
                          compile_returncode))

\* builder.cleanup()
Cleanup ==
    /\ call = Idle
    /\ Called([op |-> "cleanup"],
              [b |-> cleanup(Builder), result |-> "ok", returned |-> NoPath,
               launched |-> <<>>])

\* the exception types a with-block is left by; "None" for none
ExcTypes == {"None", "RuntimeError"}

\* the end of "with Builder(...) as builder:", left normally or by an
\* exception
Exit(exc_type) ==
    /\ call = Idle
    /\ Called([op |-> "__exit__", exc_type |-> exc_type],
              [b |-> __exit__(Builder, exc_type), result |-> "ok",
               returned |-> NoPath, launched |-> <<>>])

\* the finalizer of the Builder
Del ==
    /\ call = Idle
    /\ Called([op |-> "__del__"],
              [b |-> __del__(Builder), result |-> "ok", returned |-> NoPath,
               launched |-> <<>>])

BuildNext ==
    \/ \E code_text \in CodeTexts : SetCode(code_text)
    \/ \E returncode \in ReturnCodes, target \in TargetPaths \cup {NoPath} :
          Configure(returncode, target)
    \/ \E setup_returncode \in ReturnCodes,
          target \in TargetPaths \cup {NoPath},
          compile_returncode \in ReturnCodes :
          Build(setup_returncode, target, compile_returncode)
    \/ Cleanup
    \/ \E exc_type \in ExcTypes : Exit(exc_type)
    \/ Del
    \/ Return

BuilderSpec == BuilderInit /\ [][BuildNext]_vars

\* ------------------------------------------------------------------------
\* State machine: a Graph built node by node and compiled through the
\* shared Builder and importer of _compile.py
\* ------------------------------------------------------------------------

\* the nodes of the Graphs that are compiled
CompileNodes == {PassThroughNode, SinkEventsNode}

\* compile_graph(g, input_event_types)
CompileGraph(input_event_types, setup_returncode, target, compile_returncode, loads) ==
    /\ call = Idle
    /\ mod_ctr < MaxModules
    /\ setup_launches < MaxSetups
    /\ LET r == compile_graph(Graph, input_event_types, mod_ctr, Builder,
                              module_dir, setup_returncode, target,
                              compile_returncode, loads)
       IN  /\ SetGraph(r.g)
           /\ SetBuilder(r.b)
           /\ call' = [op |-> "compile_graph",
                       input_event_types |-> input_event_types]
           /\ result' = r.result
           /\ returned' = r.returned
           /\ launched' = r.launched
           /\ setup_launches' = setup_launches + Len(setups(r.launched))
           /\ module_dir' = r.module_dir
    /\ mod_ctr' = mod_ctr + 1
    /\ UNCHANGED lock_vars
    /\ UNCHANGED async_vars
    /\ UNCHANGED exec_vars
    /\ UNCHANGED wrap_vars

\* Context(g)
ContextInit ==
    /\ call = Idle
    /\ call' = [op |-> "Context"]
    /\ result' = context_init(Graph)
    /\ returned' = <<>>
    /\ launched' = <<>>
    /\ UNCHANGED graph_vars
    /\ UNCHANGED builder_vars
    /\ UNCHANGED compile_vars
    /\ UNCHANGED lock_vars
    /\ UNCHANGED async_vars
    /\ UNCHANGED exec_vars
    /\ UNCHANGED wrap_vars

CompileNext ==
    \/ \E node \in CompileNodes,
          upstream \in {NoPort} \cup OutputPorts(1..Len(nodes)) :
          AddNode(NameOf(Len(nodes)), node, upstream, NoPort)
    \/ \E input_event_types \in {{}, {IntEvent}},
          setup_returncode \in ReturnCodes,
          target \in TargetPaths \cup {NoPath},
          compile_returncode \in ReturnCodes,
          loads \in BOOLEAN :
          CompileGraph(input_event_types, setup_returncode, target,
                       compile_returncode, loads)
    \/ ContextInit
    \/ Return

CompileSpec == Init /\ [][CompileNext]_vars

\* ------------------------------------------------------------------------
\* State machine: an ExtensionImporter called directly
\* ------------------------------------------------------------------------

\* the names modules are imported under
ImportNames == {"m", "n"}

\* importer.import_module(name, path, ok_to_move=ok_to_move); `exists` tells
\* whether there is a file at path, `loads` whether its execution succeeds
ImportModule(name, path, ok_to_move, exists, loads) ==
    /\ call' = [op |-> "import_module", name |-> name, path |-> path,
                ok_to_move |-> ok_to_move]
    /\ LET r == import_module(module_dir, name, path, loads)
       IN  IF r.result # "already_imported" /\ ~exists
           THEN /\ result' = "FileNotFoundError"
                /\ returned' = <<>>
                /\ module_dir' = module_dir
           ELSE /\ result' = r.result
                /\ returned' = IF r.result = "ok" THEN <<name>> ELSE <<>>
                /\ module_dir' = r.module_dir
    /\ launched' = <<>>
    /\ UNCHANGED mod_ctr
    /\ UNCHANGED graph_vars
    /\ UNCHANGED builder_vars
    /\ UNCHANGED lock_vars
    /\ UNCHANGED async_vars
    /\ UNCHANGED exec_vars
    /\ UNCHANGED wrap_vars

ImportNext ==
    \E name \in ImportNames, path \in ImportPaths,
       ok_to_move \in BOOLEAN, exists \in BOOLEAN, loads \in BOOLEAN :
       ImportModule(name, path, ok_to_move, exists, loads)

ImportSpec == Init /\ [][ImportNext]_vars

\* ------------------------------------------------------------------------
\* State machine: one execution context given events and flushed
\* ------------------------------------------------------------------------

\* the call of handle or flush whose result `r` is, with what it leaves;
\* `given` are the events it passes to the processor if it reaches it
Executes(r, given) ==
    /\ result' = r.result
    /\ returned' = <<>>
    /\ end_of_life_reason' = r.reason
    /\ reached' = r.reached
    /\ handled' = IF r.reached = <<>> THEN handled ELSE handled \o given
    /\ launched' = <<>>
    /\ UNCHANGED graph_vars
    /\ UNCHANGED builder_vars
    /\ UNCHANGED compile_vars
    /\ UNCHANGED lock_vars
    /\ UNCHANGED async_vars
    /\ UNCHANGED wrap_vars

\* c.handle(event)
Handle(event, proc_does) ==
    /\ Len(handled) < MaxEvents \/ expired(end_of_life_reason)
    /\ call' = [op |-> "handle", event |-> event]
    /\ Executes(handle(end_of_life_reason, event, proc_does), <<event>>)

\* c.flush()
Flush(proc_does) ==
    /\ call' = [op |-> "flush", event |-> ""]
    /\ Executes(flush(end_of_life_reason, proc_does), <<>>)

ExecNext ==
    \/ \E event \in Events, proc_does \in ProcOutcomes : Handle(event, proc_does)
    \/ \E proc_does \in ProcOutcomes : Flush(proc_does)

ExecSpec == Init /\ [][ExecNext]_vars

\* ------------------------------------------------------------------------
\* State machine: threads calling compile_graph at the same time on the
\* shared Builder and importer, one statement or one subprocess event of
\* one thread per step
\* ------------------------------------------------------------------------

\* a Graph with one open input port and no output port
SinkGraph == add_node(EmptyGraph, "a", SinkEventsNode, NoPort, NoPort).g

\* a pass-through node before a sink
RelayedSinkGraph ==
    add_node(add_node(EmptyGraph, "c", PassThroughNode, NoPort, NoPort).g,
             "a", SinkEventsNode, <<"c", "output">>, NoPort).g

\* the Graphs the threads compile; EmptyGraph is not executable
ThreadGraphs == {SinkGraph, RelayedSinkGraph, EmptyGraph}

\* thread t is at statement `at` with its local variables set as in `with`
Goes(t, at, with) ==
    /\ stmt' = [stmt EXCEPT ![t] = at]
    /\ locals' = [locals EXCEPT ![t] = with]

\* thread t leaves the with-block by the exception `exception`
Raises(t, exception) ==
    /\ Goes(t, "release", locals[t])
    /\ outcome' = [outcome EXCEPT ![t] = exception]

\* thread t calls compile_graph(graph, (IntEvent,))
Call(t, graph) ==
    /\ stmt[t] = "idle"
    /\ mod_ctr + Cardinality({u \in Threads : stmt[u] = "acquire"}) < MaxModules
    /\ Goes(t, "acquire", compile_graph_locals(graph))
    /\ outcome' = [outcome EXCEPT ![t] = "none"]
    /\ UNCHANGED <<build_lock, running, artifact>>
    /\ UNCHANGED <<call, result, returned, launched>>
    /\ UNCHANGED async_vars
    /\ UNCHANGED exec_vars
    /\ UNCHANGED wrap_vars
    /\ UNCHANGED graph_vars
    /\ UNCHANGED builder_vars
    /\ UNCHANGED compile_vars

\* with _build_lock: mod_name = f"libtcspc_graph_{next(_mod_ctr)}"
Acquire(t) ==
    /\ stmt[t] = "acquire"
    /\ lock_free(build_lock)
    /\ build_lock' = t
    /\ Goes(t, "generate", [locals[t] EXCEPT !.mod_name = module_name(mod_ctr)])
    /\ mod_ctr' = mod_ctr + 1
    /\ UNCHANGED <<outcome, running, artifact, module_dir>>
    /\ UNCHANGED <<call, result, returned, launched>>
    /\ UNCHANGED async_vars
    /\ UNCHANGED exec_vars
    /\ UNCHANGED wrap_vars
    /\ UNCHANGED graph_vars
    /\ UNCHANGED builder_vars

\* code = _graph_module_code(mod_name, graph, input_event_types)
Generate(t) ==
    /\ stmt[t] = "generate"
    /\ LET r == graph_module_code(locals[t].mod_name, locals[t].graph, {IntEvent})
       IN  IF r.result = "ok"
           THEN /\ Goes(t, "set_code",
                        [locals[t] EXCEPT !.graph = r.g, !.code = r.code])
                /\ UNCHANGED outcome
           ELSE /\ Goes(t, "release", [locals[t] EXCEPT !.graph = r.g])
                /\ outcome' = [outcome EXCEPT ![t] = r.result]
    /\ UNCHANGED <<build_lock, running, artifact>>
    /\ UNCHANGED <<call, result, returned, launched>>
    /\ UNCHANGED async_vars
    /\ UNCHANGED exec_vars
    /\ UNCHANGED wrap_vars
    /\ UNCHANGED graph_vars
    /\ UNCHANGED builder_vars
    /\ UNCHANGED compile_vars

\* _builder.set_code(code)
WriteCode(t) ==
    /\ stmt[t] = "set_code"
    /\ LET r == async_set_code(Builder, locals[t].code)
       IN  /\ SetBuilder(r.b)
           /\ IF r.result = "ok"
              THEN Goes(t, "build", locals[t]) /\ UNCHANGED outcome
              ELSE Raises(t, r.result)
    /\ UNCHANGED <<build_lock, running, artifact, setup_launches>>
    /\ UNCHANGED <<call, result, returned, launched>>
    /\ UNCHANGED async_vars
    /\ UNCHANGED exec_vars
    /\ UNCHANGED wrap_vars
    /\ UNCHANGED graph_vars
    /\ UNCHANGED compile_vars

\* a meson subprocess of thread t; "meson compile" reads the source that is
\* in the project directory
launch(t, cmd) ==
    [cmd |-> cmd, by |-> t, source |-> IF cmd = "compile" THEN source ELSE NoSource]

\* the meson subprocess of thread t that has not exited
running_by(t) == CHOOSE r \in running : r.by = t

\* _builder.build(), up to its first subprocess: "meson setup" for a Builder
\* that is not configured, "meson compile" for one that is
BuildLaunch(t) ==
    /\ stmt[t] = "build"
    /\ IF ~(stage >= CODE_WRITTEN)
       THEN Raises(t, "AssertionError") /\ UNCHANGED running
       ELSE IF stage < CONFIGURED
       THEN /\ Goes(t, "setup", locals[t])
            /\ running' = running \cup {launch(t, "setup")}
            /\ UNCHANGED outcome
       ELSE /\ Goes(t, "compiling", locals[t])
            /\ running' = running \cup {launch(t, "compile")}
            /\ UNCHANGED outcome
    /\ UNCHANGED <<build_lock, artifact>>
    /\ UNCHANGED <<call, result, returned, launched>>
    /\ UNCHANGED async_vars
    /\ UNCHANGED exec_vars
    /\ UNCHANGED wrap_vars
    /\ UNCHANGED graph_vars
    /\ UNCHANGED builder_vars
    /\ UNCHANGED compile_vars

\* "meson setup" of thread t exits: async_configure goes on and, having
\* configured, async_build launches "meson compile"
SetupExit(t, returncode, target) ==
    /\ stmt[t] = "setup"
    /\ LET r == async_configure_steps(Builder, returncode, target)
       IN  /\ SetBuilder(r.b)
           /\ IF r.result = "ok"
              THEN /\ Goes(t, "compiling", locals[t])
                   /\ running' = (running \ {running_by(t)})
                                    \cup {launch(t, "compile")}
                   /\ UNCHANGED outcome
              ELSE /\ Raises(t, r.result)
                   /\ running' = running \ {running_by(t)}
    /\ setup_launches' = setup_launches + 1
    /\ UNCHANGED <<build_lock, artifact>>
    /\ UNCHANGED <<call, result, returned, launched>>
    /\ UNCHANGED async_vars
    /\ UNCHANGED exec_vars
    /\ UNCHANGED wrap_vars
    /\ UNCHANGED graph_vars
    /\ UNCHANGED compile_vars

\* "meson compile" of thread t exits: with exit code 0 it has linked the
\* target from the source it has read, and async_build returns the path
CompileExit(t, returncode) ==
    /\ stmt[t] = "compiling"
    /\ LET r == async_build_compile([b |-> Builder, launched |-> <<>>], returncode)
       IN  /\ SetBuilder(r.b)
           /\ IF r.result = "ok"
              THEN /\ Goes(t, "import", [locals[t] EXCEPT !.mod_path = r.returned])
                   /\ artifact' = running_by(t).source
                   /\ UNCHANGED outcome
              ELSE /\ Raises(t, r.result)
                   /\ UNCHANGED artifact
    /\ running' = running \ {running_by(t)}
    /\ UNCHANGED <<build_lock, setup_launches>>
    /\ UNCHANGED <<call, result, returned, launched>>
    /\ UNCHANGED async_vars
    /\ UNCHANGED exec_vars
    /\ UNCHANGED wrap_vars
    /\ UNCHANGED graph_vars
    /\ UNCHANGED compile_vars

\* mod = _importer.import_module(mod_name, mod_path, ok_to_move=True): the
\* file at the target path is moved into the importer's directory and
\* loaded
Import(t, loads) ==
    /\ stmt[t] = "import"
    /\ LET r == import_module(module_dir, locals[t].mod_name,
                              locals[t].mod_path, loads)
       IN  IF r.result = "already_imported"
           THEN Raises(t, r.result) /\ UNCHANGED <<artifact, module_dir>>
           ELSE IF artifact = NoSource
           THEN Raises(t, "FileNotFoundError") /\ UNCHANGED <<artifact, module_dir>>
           ELSE /\ module_dir' = r.module_dir
                /\ artifact' = NoSource
                /\ outcome' = [outcome EXCEPT ![t] = r.result]
                /\ Goes(t, "release",
                        [locals[t] EXCEPT !.mod = IF r.result = "ok"
                                                  THEN artifact ELSE NoSource])
    /\ UNCHANGED <<build_lock, running, mod_ctr>>
    /\ UNCHANGED <<call, result, returned, launched>>
    /\ UNCHANGED async_vars
    /\ UNCHANGED exec_vars
    /\ UNCHANGED wrap_vars
    /\ UNCHANGED graph_vars
    /\ UNCHANGED builder_vars

\* the end of the with-block, left by return or by an exception: the lock
\* is released and compile_graph returns or raises
Release(t) ==
    /\ stmt[t] = "release"
    /\ build_lock' = NoThread
    /\ stmt' = [stmt EXCEPT ![t] = "idle"]
    /\ outcome' = [outcome EXCEPT ![t] = IF @ = "none" THEN "ok" ELSE @]
    /\ UNCHANGED <<locals, running, artifact>>
    /\ UNCHANGED <<call, result, returned, launched>>
    /\ UNCHANGED async_vars
    /\ UNCHANGED exec_vars
    /\ UNCHANGED wrap_vars
    /\ UNCHANGED graph_vars
    /\ UNCHANGED builder_vars
    /\ UNCHANGED compile_vars

LockNext ==
    \/ \E t \in Threads, graph \in ThreadGraphs : Call(t, graph)
    \/ \E t \in Threads : Acquire(t)
    \/ \E t \in Threads : Generate(t)
    \/ \E t \in Threads : WriteCode(t)
    \/ \E t \in Threads : BuildLaunch(t)
    \/ \E t \in Threads, returncode \in ReturnCodes,
          target \in TargetPaths \cup {NoPath} : SetupExit(t, returncode, target)
    \/ \E t \in Threads, returncode \in ReturnCodes : CompileExit(t, returncode)
    \/ \E t \in Threads, loads \in BOOLEAN : Import(t, loads)
    \/ \E t \in Threads : Release(t)

LockSpec == Init /\ [][LockNext]_vars

\* ------------------------------------------------------------------------
\* State machine: threads that submit coroutines to background loops,
\* cancel their futures, wait for them and shut the loops down, while each
\* loop thread runs its callbacks and the subprocesses exit
\* ------------------------------------------------------------------------

\* what the steps of this machine leave alone
not_async_vars == <<graph_vars, builder_vars, compile_vars, lock_vars, launched,
                    exec_vars, wrap_vars>>

\* no result() call has returned
not_waited == UNCHANGED <<call, result, returned>>

\* the loops and futures of the next state are those of r
SetAsync(r) ==
    /\ loops' = r.loops
    /\ futures' = r.futures

\* loop = _BackgroundEventLoop(daemon=daemon), daemon one of Daemon: a loop
\* constructed by its user, as _loop() and the tests do, with nothing
\* submitted
ConstructedLoop(Daemon) ==
    /\ nodes = EmptyGraph.nodes
    /\ node_name_index = EmptyGraph.node_name_index
    /\ topo_sorted_node_ids = EmptyGraph.topo_sorted_node_ids
    /\ input_edge_index = EmptyGraph.input_edge_index
    /\ output_edge_index = EmptyGraph.output_edge_index
    /\ edges = EmptyGraph.edges
    /\ call = Idle
    /\ result = "none"
    /\ returned = <<>>
    /\ launched = <<>>
    /\ BuilderIs(created_builder)
    /\ setup_launches = 0
    /\ mod_ctr = 0
    /\ module_dir = {}
    /\ LockInit
    /\ ExecInit
    /\ WrapInit
    /\ loop_cache = NoLoop
    /\ \E daemon \in Daemon : loops = <<new_loop(daemon)>>
    /\ futures = <<>>
    /\ submits = [t \in Threads |-> NotSubmitting]

\* the loop of the tests, daemon or not
LoopInit == ConstructedLoop(BOOLEAN)

\* the loop _loop() constructs: _BackgroundEventLoop(daemon=True)
DaemonLoopInit == ConstructedLoop({TRUE})

\* loop.submit(coro) on the loop l, before its shutdown
Submit(l, coro) ==
    /\ Len(futures) < MaxTasks
    /\ loops[l].shutdown = "none"
    /\ SetAsync(loop_submit(loops, futures, l, coro))
    /\ UNCHANGED <<loop_cache, submits>>
    /\ UNCHANGED not_async_vars
    /\ not_waited

\* thread t calls submit(coro) of the module, which looks _loop() up in its
\* cache
SubmitCall(t, coro) ==
    /\ submits[t].at = "idle"
    /\ Len(futures) + Cardinality({u \in Threads : submits[u].at # "idle"})
          < MaxTasks
    /\ submits' = [submits EXCEPT ![t] =
                      IF loop_cache # NoLoop
                      THEN [at |-> "submit", loop |-> loop_cache, coro |-> coro]
                      ELSE [at |-> "create", loop |-> NoLoop, coro |-> coro]]
    /\ UNCHANGED <<loop_cache, loops, futures>>
    /\ UNCHANGED not_async_vars
    /\ not_waited

\* thread t, having missed the cache, runs the body of _loop(): it
\* constructs a daemon loop, and functools.cache stores what it returns
CreateLoop(t) ==
    /\ submits[t].at = "create"
    /\ Len(loops) < MaxLoops
    /\ loops' = Append(loops, new_loop(TRUE))
    /\ loop_cache' = Len(loops) + 1
    /\ submits' = [submits EXCEPT ![t].at = "submit", ![t].loop = Len(loops) + 1]
    /\ UNCHANGED futures
    /\ UNCHANGED not_async_vars
    /\ not_waited

\* thread t runs loop.submit(coro); on a loop that has been closed its
\* assertion fails
Enqueue(t) ==
    /\ submits[t].at = "submit"
    /\ IF loops[submits[t].loop].closed
       THEN UNCHANGED <<loops, futures>>
       ELSE SetAsync(loop_submit(loops, futures, submits[t].loop, submits[t].coro))
    /\ submits' = [submits EXCEPT ![t] = NotSubmitting]
    /\ UNCHANGED loop_cache
    /\ UNCHANGED not_async_vars
    /\ not_waited

\* fut.cancel() by the caller that holds the future f
Cancel(f) ==
    /\ futures[f].state = "PENDING"
    /\ SetAsync(future_cancel(loops, futures, f))
    /\ UNCHANGED <<loop_cache, submits>>
    /\ UNCHANGED not_async_vars
    /\ not_waited

\* fut.result() on the future f, which is done, returns or raises; `call`
\* is the result() call that returned last
Result(f) ==
    /\ futures[f].state \in DoneStates
    /\ call' = [op |-> "result", f |-> f]
    /\ result' = future_result(futures, f)
    /\ returned' = <<futures[f].result>>
    /\ UNCHANGED async_vars
    /\ UNCHANGED not_async_vars

\* loop.shutdown() is called, by a caller or at exit, and cancels the
\* futures
ShutdownCancel(l) ==
    /\ loops[l].shutdown = "none"
    /\ ~loops[l].closed
    /\ SetAsync(shutdown_cancel(loops, futures, l))
    /\ UNCHANGED <<loop_cache, submits>>
    /\ UNCHANGED not_async_vars
    /\ not_waited

\* the wait of shutdown() returns and the loop is told to stop
ShutdownStop(l) ==
    /\ loops[l].shutdown = "wait"
    /\ wait_returns(loops, futures, l)
    /\ loops' = shutdown_stop(loops, l)
    /\ UNCHANGED <<loop_cache, futures, submits>>
    /\ UNCHANGED not_async_vars
    /\ not_waited

\* self._loop_thread.join() returns: shutdown() returns
ShutdownJoin(l) ==
    /\ loops[l].shutdown = "join"
    /\ loops[l].closed
    /\ loops' = [loops EXCEPT ![l].shutdown = "returned"]
    /\ UNCHANGED <<loop_cache, futures, submits>>
    /\ UNCHANGED not_async_vars
    /\ not_waited

\* the thread of loop l, which nothing stops, runs the next callback of its
\* queue; where the loop runs for ever the iterations of run_forever() are
\* not told apart
RunCallback(l) ==
    /\ ~loops[l].closed
    /\ loops[l].ready # <<>>
    /\ SetAsync(run_callback(loops, futures, l))
    /\ UNCHANGED <<loop_cache, submits>>
    /\ UNCHANGED not_async_vars
    /\ not_waited

\* the thread of loop l runs the next callback of the iteration of
\* run_forever() it is in
RunOnce(l) ==
    /\ ~loops[l].closed
    /\ loops[l].ready # <<>>
    /\ ~(loops[l].ntodo = 0 /\ loops[l].stopping)
    /\ SetAsync(run_once(loops, futures, l))
    /\ UNCHANGED <<loop_cache, submits>>
    /\ UNCHANGED not_async_vars
    /\ not_waited

\* run_forever() returns at the end of the iteration in which the loop was
\* stopped; the loop is closed and its thread ends
LoopExit(l) ==
    /\ ~loops[l].closed
    /\ loops[l].ntodo = 0
    /\ loops[l].stopping
    /\ loops' = [loops EXCEPT ![l].closed = TRUE]
    /\ UNCHANGED <<loop_cache, futures, submits>>
    /\ UNCHANGED not_async_vars
    /\ not_waited

\* the subprocess of the coroutine of f runs to its end
ProcessEnds(f) ==
    /\ futures[f].proc = "alive"
    /\ SetAsync(process_exited(loops, futures, f))
    /\ UNCHANGED <<loop_cache, submits>>
    /\ UNCHANGED not_async_vars
    /\ not_waited

\* the subprocess of the coroutine of f, sent SIGTERM by proc.terminate(),
\* exits
ProcessTerminated(f) ==
    /\ futures[f].proc = "signalled"
    /\ SetAsync(process_exited(loops, futures, f))
    /\ UNCHANGED <<loop_cache, submits>>
    /\ UNCHANGED not_async_vars
    /\ not_waited

\* one loop with its callers, its thread and the subprocesses
AsyncNext ==
    \/ \E l \in DOMAIN loops, coro \in Coroutines : Submit(l, coro)
    \/ \E f \in DOMAIN futures : Cancel(f)
    \/ \E l \in DOMAIN loops : ShutdownCancel(l)
    \/ \E l \in DOMAIN loops : ShutdownStop(l)
    \/ \E l \in DOMAIN loops : ShutdownJoin(l)
    \/ \E l \in DOMAIN loops : RunOnce(l)
    \/ \E l \in DOMAIN loops : LoopExit(l)
    \/ \E f \in DOMAIN futures : ProcessTerminated(f)

AsyncSpec == LoopInit /\ [][AsyncNext]_vars

\* the coroutines the callers of CallerSpec submit: one that returns a
\* value and one that awaits a subprocess which runs until it is terminated
CallerCoroutines == {"set_result", "run_subprocess"}

\* one loop that is not shut down, the callers that submit to it, cancel
\* their futures and wait for them, and the subprocesses
CallerNext ==
    \/ \E l \in DOMAIN loops, coro \in CallerCoroutines : Submit(l, coro)
    \/ \E f \in DOMAIN futures : Cancel(f)
    \/ \E f \in DOMAIN futures : Result(f)
    \/ \E l \in DOMAIN loops : RunCallback(l)
    \/ \E f \in DOMAIN futures : ProcessTerminated(f)

CallerSpec == DaemonLoopInit /\ [][CallerNext]_vars

\* the thread of a loop keeps running run_forever(), so a callback that is
\* ready is run, and a subprocess sent SIGTERM exits
FairCallerSpec ==
    /\ CallerSpec
    /\ \A l \in 1..MaxLoops : WF_vars(l \in DOMAIN loops /\ RunCallback(l))
    /\ \A f \in 1..MaxTasks :
          WF_vars(f \in DOMAIN futures /\ ProcessTerminated(f))

\* threads in submit() of the module, from the first call on, and the loop
\* threads
SubmitNext ==
    \/ \E t \in Threads, coro \in Coroutines : SubmitCall(t, coro)
    \/ \E t \in Threads : CreateLoop(t)
    \/ \E t \in Threads : Enqueue(t)
    \/ \E l \in DOMAIN loops : RunCallback(l)
    \/ \E f \in DOMAIN futures : ProcessEnds(f)

SubmitSpec == Init /\ [][SubmitNext]_vars

\* the thread of loop l runs the next callback of its iteration, or the
\* done callbacks of the future it has just finished
RunOnceStepwise(l) ==
    /\ ~loops[l].closed
    /\ loops[l].ready # <<>>
    /\ ~(loops[l].ntodo = 0 /\ loops[l].stopping)
    /\ SetAsync(run_once_stepwise(loops, futures, l))
    /\ UNCHANGED <<loop_cache, submits>>
    /\ UNCHANGED not_async_vars
    /\ not_waited

\* one loop with the callers that submit to it and shut it down, the loop
\* thread completing the futures step by step
TrackNext ==
    \/ \E l \in DOMAIN loops, coro \in {"set_result", "sleep_forever"} :
          Submit(l, coro)
    \/ \E l \in DOMAIN loops : ShutdownCancel(l)
    \/ \E l \in DOMAIN loops : ShutdownStop(l)
    \/ \E l \in DOMAIN loops : ShutdownJoin(l)
    \/ \E l \in DOMAIN loops : RunOnceStepwise(l)
    \/ \E l \in DOMAIN loops : LoopExit(l)

TrackSpec == LoopInit /\ [][TrackNext]_vars

\* ------------------------------------------------------------------------
\* Properties of Graph
\* ------------------------------------------------------------------------

\* the _Edge objects the edge tables of G refer to
committed(G) == table_refs(G.input_edge_index) \cup table_refs(G.output_edge_index)

\* the consumers of the committed edges leaving the nodes S
successors(G, S) ==
    {G.edges[e].consumer_id :
        e \in {r \in committed(G) : G.edges[r].producer_id \in S}}

RECURSIVE reach(_, _, _)
reach(G, S, n) == IF n = 0 THEN S ELSE reach(G, S \cup successors(G, S), n - 1)

\* node `to` is node `from` or is reachable from it along committed edges
Reachable(G, from, to) == to \in reach(G, {from}, Len(G.nodes))

Acyclic(G) ==
    \A e \in committed(G) :
        ~Reachable(G, G.edges[e].consumer_id, G.edges[e].producer_id)

\* the position of a node in the maintained order (0: not in it)
Position(node_id) == IndexOf(topo_sorted_node_ids, node_id)

\* connect(producer, consumer) names two nodes of G, an output port of the
\* first and an input port of the second
PortsKnown(G, producer, consumer) ==
    /\ producer[1] \in DOMAIN G.node_name_index
    /\ consumer[1] \in DOMAIN G.node_name_index
    /\ producer[2] \in Range(G.nodes[G.node_name_index[producer[1]] + 1].node.outputs)
    /\ consumer[2] \in Range(G.nodes[G.node_name_index[consumer[1]] + 1].node.inputs)

\* the slot in G of the output port named by `producer`
OutputSlot(G, producer) ==
    G.output_edge_index[G.node_name_index[producer[1]]]
        [IndexOf(G.nodes[G.node_name_index[producer[1]] + 1].node.outputs, producer[2])]

\* the slot in G of the input port named by `consumer`
InputSlot(G, consumer) ==
    G.input_edge_index[G.node_name_index[consumer[1]]]
        [IndexOf(G.nodes[G.node_name_index[consumer[1]] + 1].node.inputs, consumer[2])]

\* the two ports are known and neither carries an edge
PortsFree(G, producer, consumer) ==
    /\ PortsKnown(G, producer, consumer)
    /\ OutputSlot(G, producer) = None
    /\ InputSlot(G, consumer) = None

\* the new edge would close a cycle in G
ClosesCycle(G, producer, consumer) ==
    Reachable(G, G.node_name_index[consumer[1]], G.node_name_index[producer[1]])

\* C1: after any sequence of add_node and connect calls, failed ones
\* included, the producer of every committed edge is in the maintained order
\* strictly before the consumer of the edge.
C1_TopologicalOrder ==
    \A e \in committed(Graph) :
        /\ Position(edges[e].producer_id) > 0
        /\ Position(edges[e].producer_id) < Position(edges[e].consumer_id)

\* C1's case: a connect between two committed edges has moved nodes, so
\* that the order is no longer the order of insertion
C1_Witness ==
    /\ call.op = "connect"
    /\ result = "ok"
    /\ Cardinality(committed(Graph)) >= 2
    /\ \E i, j \in 1..Len(topo_sorted_node_ids) :
          i < j /\ topo_sorted_node_ids[i] > topo_sorted_node_ids[j]

\* C2: connect reports a cycle failure exactly when its ports are free and
\* the producer node is the consumer node or reachable from it along the
\* committed edges, and the committed edges never contain a cycle.
C2_CycleFailure ==
    /\ [](Acyclic(Graph))
    /\ [][call'.op = "connect" =>
            ((result' = "cycle") <=>
                (/\ PortsFree(Graph, call'.producer, call'.consumer)
                 /\ ClosesCycle(Graph, call'.producer, call'.consumer)))]_vars

\* C3: a connect that fails with a cycle failure leaves the order, both
\* edge tables and the event set of every edge as they were before the call.
C3_CycleRollback ==
    [][call'.op = "connect" /\ result' = "cycle" => UNCHANGED graph_vars]_vars

\* C3's case: a cycle failure in a Graph with committed edges, between two
\* different nodes
C3_Witness ==
    /\ call.op = "connect"
    /\ result = "cycle"
    /\ committed(Graph) # {}
    /\ call.producer[1] # call.consumer[1]

\* the event sets on the input slots of node n of G, the one at port
\* `port` (0: none) replaced by event_set
input_event_sets_of(G, n, port, event_set) ==
    [k \in 1..Len(G.input_edge_index[n]) |->
        IF k = port THEN event_set
        ELSE slot_event_set(G.edges, G.input_edge_index[n][k])]

\* the type flow of node n of G on the event sets now on its input slots
current_output(G, n) ==
    node_map_event_sets(G.nodes[n + 1].node, input_event_sets_of(G, n, 0, {}))

\* the producer named in a connect call accepts what its inputs carry, so
\* that it has an output event set to put on the new edge
ProducerAccepts(G, producer) == current_output(G, G.node_name_index[producer[1]]).ok

\* the event set the new edge of connect(producer, consumer) would carry
ProducerOutput(G, producer) ==
    current_output(G, G.node_name_index[producer[1]]).out
        [IndexOf(G.nodes[G.node_name_index[producer[1]] + 1].node.outputs, producer[2])]

\* the consumer's type flow rejects its inputs once the port named by
\* `consumer` carries the producer's output event set
ConsumerRejects(G, producer, consumer) ==
    LET ic == G.node_name_index[consumer[1]]
    IN  ~node_map_event_sets(G.nodes[ic + 1].node,
            input_event_sets_of(G, ic,
                IndexOf(G.nodes[ic + 1].node.inputs, consumer[2]),
                ProducerOutput(G, producer))).ok

\* C4: a connect that fails with a type-flow rejection is rolled back as a
\* whole: the new edge is gone from both tables, the order is the order
\* before the call, and every edge carries the event set it had before.
C4_TypeRollback ==
    [][call'.op = "connect" /\ result' = "type" =>
          /\ input_edge_index' = input_edge_index
          /\ output_edge_index' = output_edge_index
          /\ topo_sorted_node_ids' = topo_sorted_node_ids
          /\ edges' = edges]_vars

\* C5 as stated: connecting, between two free ports, a producer whose
\* output event set the consumer's type flow rejects fails with a type
\* failure and creates no edge: both ports are unconnected afterwards.
C5_TypeMismatchAlways ==
    [][(/\ call'.op = "connect"
        /\ PortsFree(Graph, call'.producer, call'.consumer)
        /\ ProducerAccepts(Graph, call'.producer)
        /\ ConsumerRejects(Graph, call'.producer, call'.consumer))
       => (/\ result' = "type"
           /\ committed(GraphNext) = committed(Graph)
           /\ OutputSlot(GraphNext, call'.producer) = None
           /\ InputSlot(GraphNext, call'.consumer) = None)]_vars

\* C5, amended: the same for a connection that does not close a cycle (one
\* that does fails with the cycle failure, which is checked first).
C5_TypeMismatch ==
    [][(/\ call'.op = "connect"
        /\ PortsFree(Graph, call'.producer, call'.consumer)
        /\ ProducerAccepts(Graph, call'.producer)
        /\ ConsumerRejects(Graph, call'.producer, call'.consumer)
        /\ ~ClosesCycle(Graph, call'.producer, call'.consumer))
       => (/\ result' = "type"
           /\ committed(GraphNext) = committed(Graph)
           /\ OutputSlot(GraphNext, call'.producer) = None
           /\ InputSlot(GraphNext, call'.consumer) = None)]_vars

\* C5's case: a connect of two free ports has failed with a type failure,
\* the consumer rejecting the producer's non-empty output event set
C5_Witness ==
    /\ call.op = "connect"
    /\ result = "type"
    /\ PortsFree(Graph, call.producer, call.consumer)
    /\ ProducerAccepts(Graph, call.producer)
    /\ ProducerOutput(Graph, call.producer) # {}
    /\ ConsumerRejects(Graph, call.producer, call.consumer)
    /\ ~ClosesCycle(Graph, call.producer, call.consumer)

\* C6: after any sequence of add_node and connect calls, failed ones
\* included, every committed edge carries the output, at the edge's port, of
\* its producer's type flow on the event sets now on the producer's inputs.
C6_EdgeEventSets ==
    \A e \in committed(Graph) :
        /\ current_output(Graph, edges[e].producer_id).ok
        /\ edges[e].event_set =
              current_output(Graph, edges[e].producer_id).out
                  [IndexOf(output_edge_index[edges[e].producer_id], e)]

\* the slots of an edge table that hold the reference e
slots_of(edge_index, e) ==
    {nk \in UNION {{<<n, k>> : k \in 1..Len(edge_index[n])} : n \in DOMAIN edge_index} :
        edge_index[nk[1]][nk[2]] = e}

\* every live _Edge object is the edge of one input port of its consumer
\* and of one output port of its producer
OneEdgePerPort ==
    /\ DOMAIN edges = committed(Graph)
    /\ \A e \in DOMAIN edges :
          /\ Cardinality(slots_of(input_edge_index, e)) = 1
          /\ Cardinality(slots_of(output_edge_index, e)) = 1
          /\ \A nk \in slots_of(input_edge_index, e) : nk[1] = edges[e].consumer_id
          /\ \A nk \in slots_of(output_edge_index, e) : nk[1] = edges[e].producer_id

\* the edge of an occupied port stays the edge of that port, between the
\* same two nodes
OccupiedPortsKeepTheirEdge ==
    /\ \A e \in committed(Graph) :
          /\ e \in committed(GraphNext)
          /\ slots_of(input_edge_index', e) = slots_of(input_edge_index, e)
          /\ slots_of(output_edge_index', e) = slots_of(output_edge_index, e)
          /\ edges'[e].producer_id = edges[e].producer_id
          /\ edges'[e].consumer_id = edges[e].consumer_id

\* C7: every port carries at most one edge at all times; a connect to a
\* port that carries an edge, on either side, or with a port name its node
\* does not have, fails and leaves order, edge tables and event sets as
\* they were.
C7_OneEdgePerPort ==
    /\ []OneEdgePerPort
    /\ [][OccupiedPortsKeepTheirEdge]_vars
    /\ [][(/\ call'.op = "connect"
           /\ PortsKnown(Graph, call'.producer, call'.consumer)
           /\ ~PortsFree(Graph, call'.producer, call'.consumer))
          => (/\ result' \in {"input_connected", "output_connected"}
              /\ UNCHANGED graph_vars)]_vars
    /\ [][(/\ call'.op = "connect"
           /\ call'.producer[1] \in DOMAIN node_name_index
           /\ call'.consumer[1] \in DOMAIN node_name_index
           /\ ~PortsKnown(Graph, call'.producer, call'.consumer))
          => (/\ result' = "port_name"
              /\ UNCHANGED graph_vars)]_vars

\* C7's case: a connect to an input port that carries an edge has failed,
\* its producer port being free
C7_Witness ==
    /\ call.op = "connect"
    /\ result = "input_connected"
    /\ PortsKnown(Graph, call.producer, call.consumer)
    /\ InputSlot(Graph, call.consumer) # None
    /\ OutputSlot(Graph, call.producer) = None

\* the edge table `here`, indexed by the endpoint `end_here` of its edges,
\* holds no edge that the table `there` does not hold at exactly one port
\* of the node at the other end of the edge
HeldOnceThere(here, end_here(_), there, end_there(_)) ==
    \A n \in DOMAIN here : \A k \in 1..Len(here[n]) :
       here[n][k] # None =>
          /\ here[n][k] \in DOMAIN edges
          /\ end_here(edges[here[n][k]]) = n
          /\ Cardinality(slots_of(here, here[n][k])) = 1
          /\ Cardinality(slots_of(there, here[n][k])) = 1
          /\ \A s \in slots_of(there, here[n][k]) :
                s[1] = end_there(edges[here[n][k]])

\* C36: after any sequence of add_node and connect calls, failed ones
\* included, the two edge tables agree: both have one list per node, as
\* long as the node has ports of that side; an edge the input table holds
\* for node c, with producer p, is held by the output table for node p at
\* exactly one port, and an edge the output table holds for node p, with
\* consumer c, is held by the input table for node c at exactly one port;
\* no edge is in one table only or at two ports of a table.
C36_TablesAgree ==
    /\ DOMAIN input_edge_index = 0..(Len(nodes) - 1)
    /\ DOMAIN output_edge_index = 0..(Len(nodes) - 1)
    /\ \A n \in 0..(Len(nodes) - 1) :
          /\ Len(input_edge_index[n]) = Len(nodes[n + 1].node.inputs)
          /\ Len(output_edge_index[n]) = Len(nodes[n + 1].node.outputs)
    /\ HeldOnceThere(input_edge_index, LAMBDA e : e.consumer_id,
                     output_edge_index, LAMBDA e : e.producer_id)
    /\ HeldOnceThere(output_edge_index, LAMBDA e : e.producer_id,
                     input_edge_index, LAMBDA e : e.consumer_id)

\* C36's case: a connect that had put its edge into both tables has failed
\* on a Graph that holds two edges, and its two ports are free again
C36_Witness ==
    /\ call.op = "connect"
    /\ result \in {"cycle", "type"}
    /\ PortsKnown(Graph, call.producer, call.consumer)
    /\ PortsFree(Graph, call.producer, call.consumer)
    /\ Cardinality(committed(Graph)) >= 2

\* C8: map_event_sets, whatever the candidate sets and whether it returns
\* or raises, leaves the order, the edge tables and the event set of every
\* edge as they were, so that the calls after it find the Graph they would
\* have found without it.
C8_DryRunPure ==
    [][call'.op = "map_event_sets" => UNCHANGED graph_vars]_vars

\* C8's case: a dry run with a non-empty candidate set has returned from a
\* Graph with a committed edge
C8_Witness ==
    /\ call.op = "map_event_sets"
    /\ result = "ok"
    /\ committed(Graph) # {}
    /\ \E k \in 1..Len(call.input_event_sets) : call.input_event_sets[k] # {}

\* the evaluation of the nodes of G in topological order from position i
\* on; outs[n] is what node n, evaluated before, has put out in this run. A
\* connected input carries what its producer has put out, an open input
\* its candidate set.
RECURSIVE in_order(_, _, _, _)
in_order(G, candidates, i, outs) ==
    IF i > Len(G.topo_sorted_node_ids) THEN [ok |-> TRUE, outs |-> outs]
    ELSE
      LET n == G.topo_sorted_node_ids[i]
          ins == [k \in 1..Len(G.input_edge_index[n]) |->
                    LET e == G.input_edge_index[n][k]
                    IN  IF e = None
                        THEN candidates[IndexOf(graph_inputs(G), <<n, k>>)]
                        ELSE outs[G.edges[e].producer_id]
                                 [IndexOf(G.output_edge_index[G.edges[e].producer_id], e)]]
          mapped == node_map_event_sets(G.nodes[n + 1].node, ins)
      IN  IF ~mapped.ok THEN [ok |-> FALSE, outs |-> outs]
          ELSE in_order(G, candidates, i + 1,
                        [x \in DOMAIN outs \cup {n} |->
                            IF x = n THEN mapped.out ELSE outs[x]])

\* what a dry run of G on the candidate sets is to return: [ok, out]
Expected(G, candidates) ==
    IF Len(candidates) # Len(graph_inputs(G)) THEN [ok |-> FALSE, out |-> <<>>]
    ELSE LET r == in_order(G, candidates, 1, <<>>)
         IN  IF ~r.ok THEN [ok |-> FALSE, out |-> <<>>]
             ELSE [ok |-> TRUE,
                   out |-> [k \in 1..Len(graph_outputs(G)) |->
                              r.outs[graph_outputs(G)[k][1]][graph_outputs(G)[k][2]]]]

\* C9: map_event_sets returns, for each open output port in port order,
\* the event set of an evaluation of all nodes in topological order in
\* which every connected input carries what its producer put out in this
\* same run and every open input its candidate set; a rejection by a node
\* of such an input is raised.
C9_DryRunResult ==
    [][call'.op = "map_event_sets" =>
          /\ (result' = "ok") <=> Expected(Graph, call'.input_event_sets).ok
          /\ result' = "ok" =>
                returned' = Expected(Graph, call'.input_event_sets).out]_vars

\* C10: add_node with a new name gives the node the next dense id, its
\* index in the node list, which grows by this node alone; called without
\* upstream and downstream it leaves the node with empty port slots and its
\* id at the end of the order. add_node with a name in use fails and leaves
\* node list, name index, order and edge tables as they were.
C10_AddNode ==
    [][call'.op = "add_node" =>
          IF call'.name \in DOMAIN node_name_index
          THEN result' = "name_exists" /\ UNCHANGED graph_vars
          ELSE /\ nodes' = Append(nodes, [name |-> call'.name, node |-> call'.node])
               /\ DOMAIN node_name_index' = DOMAIN node_name_index \cup {call'.name}
               /\ node_name_index'[call'.name] = Len(nodes)
               /\ \A n \in DOMAIN node_name_index :
                     node_name_index'[n] = node_name_index[n]
               /\ DOMAIN input_edge_index' = 0..Len(nodes)
               /\ DOMAIN output_edge_index' = 0..Len(nodes)
               /\ Len(input_edge_index'[Len(nodes)]) = Len(call'.node.inputs)
               /\ Len(output_edge_index'[Len(nodes)]) = Len(call'.node.outputs)
               /\ (call'.upstream = NoPort /\ call'.downstream = NoPort) =>
                     /\ result' = "ok"
                     /\ topo_sorted_node_ids' = Append(topo_sorted_node_ids, Len(nodes))
                     /\ \A k \in 1..Len(call'.node.inputs) :
                           input_edge_index'[Len(nodes)][k] = None
                     /\ \A k \in 1..Len(call'.node.outputs) :
                           output_edge_index'[Len(nodes)][k] = None
                     /\ \A n \in DOMAIN input_edge_index :
                           /\ input_edge_index'[n] = input_edge_index[n]
                           /\ output_edge_index'[n] = output_edge_index[n]
                     /\ edges' = edges]_vars

\* C10's case: a node added, without upstream or downstream, to a Graph
\* whose order is not the order of insertion
C10_Witness ==
    /\ call.op = "add_node"
    /\ result = "ok"
    /\ call.upstream = NoPort
    /\ call.downstream = NoPort
    /\ Len(nodes) = 3
    /\ topo_sorted_node_ids[1] # 0
    /\ committed(Graph) # {}

\* ------------------------------------------------------------------------
\* Properties of add_sequence
\* ------------------------------------------------------------------------

\* the committed edges of G as <<producer id, output port, consumer id,
\* input port>>
EdgeSet(G) ==
    {<<G.edges[e].producer_id,
       IndexOf(G.output_edge_index[G.edges[e].producer_id], e),
       G.edges[e].consumer_id,
       IndexOf(G.input_edge_index[G.edges[e].consumer_id], e)>> :
        e \in committed(G)}

\* the node id and the port number that `producer` names in G
OutputPortOf(G, producer) ==
    <<G.node_name_index[producer[1]],
      IndexOf(G.nodes[G.node_name_index[producer[1]] + 1].node.outputs, producer[2])>>

\* the same for a consumer
InputPortOf(G, consumer) ==
    <<G.node_name_index[consumer[1]],
      IndexOf(G.nodes[G.node_name_index[consumer[1]] + 1].node.inputs, consumer[2])>>

\* the edges add_sequence(seq, upstream, downstream) is to add to G, whose
\* new nodes get the ids Len(G.nodes), Len(G.nodes) + 1, ...
ChainEdges(G, seq, upstream, downstream) ==
    LET n0 == Len(G.nodes)
        k == Len(seq)
    IN  {<<n0 + i - 1, 1, n0 + i, 1>> : i \in 1..(k - 1)}
        \cup (IF upstream # NoPort /\ k > 0
              THEN {OutputPortOf(G, upstream) \o <<n0, 1>>} ELSE {})
        \cup (IF downstream # NoPort /\ k > 0
              THEN {<<n0 + k - 1, 1>> \o InputPortOf(G, downstream)} ELSE {})
        \cup (IF upstream # NoPort /\ downstream # NoPort /\ k = 0
              THEN {OutputPortOf(G, upstream) \o InputPortOf(G, downstream)}
              ELSE {})

\* C11: a successful add_sequence appends the nodes of the list, in order,
\* and adds exactly the chain of edges upstream -> n1 -> ... -> nk ->
\* downstream (its ends only where given, upstream -> downstream for an
\* empty list); a list with an element that has not one input and one
\* output port is rejected.
C11_AddSequence ==
    [][call'.op = "add_sequence" =>
          /\ result' = "ok" =>
                /\ Len(nodes') = Len(nodes) + Len(call'.nodes)
                /\ SubSeq(nodes', 1, Len(nodes)) = nodes
                /\ \A i \in 1..Len(call'.nodes) :
                      /\ nodes'[Len(nodes) + i].node = call'.nodes[i].node
                      /\ call'.nodes[i].name # NoName =>
                            nodes'[Len(nodes) + i].name = call'.nodes[i].name
                /\ EdgeSet(GraphNext) =
                      EdgeSet(Graph) \cup ChainEdges(Graph, call'.nodes,
                                          call'.upstream, call'.downstream)
          /\ (\E i \in 1..Len(call'.nodes) :
                 \/ Len(call'.nodes[i].node.inputs) # 1
                 \/ Len(call'.nodes[i].node.outputs) # 1)
             => result' # "ok"]_vars

\* C11's case: a list of two nodes chained behind a node of the Graph
C11_Witness ==
    /\ call.op = "add_sequence"
    /\ result = "ok"
    /\ Len(call.nodes) = 2
    /\ call.upstream # NoPort
    /\ Cardinality(EdgeSet(Graph)) >= 2

\* ------------------------------------------------------------------------
\* Properties of the generated code
\* ------------------------------------------------------------------------

\* a generate_cpp call has returned the closure text in `returned`
Generated == call.op = "generate_cpp" /\ result = "ok"

\* the identifiers bound by the definitions of code before definition k
BoundBefore(code, k) ==
    UNION {Range(code.node_defs[j].inputs) : j \in 1..(k - 1)}

\* the identifiers bound before definition k by the definition of node c
BoundBeforeBy(code, k, c) ==
    UNION {Range(code.node_defs[j].inputs) :
              j \in {x \in 1..(k - 1) : code.node_defs[x].node_id = c}}

\* C13: generate_cpp emits the definitions of the nodes in reverse
\* topological order; in the text it returns each connected output of a
\* node is an identifier bound by the definition of the consuming node,
\* which stands earlier in the text, each open output is a placeholder
\* parameter, and the returned identifiers are bound by a definition; no
\* call given as many downstreams as the Graph has open outputs fails to
\* resolve an output or an input (KeyError, ValueError of list.index).
C13_ReverseOrder ==
    /\ (call.op = "generate_cpp"
          /\ Len(call.downstreams) = Len(graph_outputs(Graph)))
       => result \in {"ok", "IndexError"}
    /\ Generated =>
          /\ [k \in 1..Len(returned.node_defs) |-> returned.node_defs[k].node_id]
                = reverse(topo_sorted_node_ids)
          /\ \A k \in 1..Len(returned.node_defs) :
                LET d == returned.node_defs[k]
                IN  \A i \in 1..Len(d.outputs) :
                       IF output_edge_index[d.node_id][i] = None
                       THEN d.outputs[i] \in Range(returned.params)
                       ELSE d.outputs[i] \in
                              BoundBeforeBy(returned, k,
                                  edges[output_edge_index[d.node_id][i]].consumer_id)
          /\ \A k \in 1..Len(returned.return) :
                returned.return[k] \in
                   BoundBefore(returned, Len(returned.node_defs) + 1)

\* C13's case: code generated for a Graph with two committed edges whose
\* topological order is not the order of insertion
C13_Witness ==
    /\ Generated
    /\ Cardinality(committed(Graph)) >= 2
    /\ topo_sorted_node_ids # [k \in 1..Len(nodes) |-> k - 1]

\* the open ports of an edge table, as a set
OpenPorts(edge_index) ==
    {p \in UNION {{<<n, i>> : i \in 1..Len(edge_index[n])} : n \in DOMAIN edge_index} :
        edge_index[p[1]][p[2]] = None}

\* port p comes before port q in node-id then port-index order
PortBefore(p, q) == p[1] < q[1] \/ (p[1] = q[1] /\ p[2] < q[2])

\* the input ports the definitions of code bind identifier id to
PortsBoundTo(code, id) ==
    UNION {{<<code.node_defs[k].node_id, i>> :
               i \in {x \in 1..Len(code.node_defs[k].inputs) :
                         code.node_defs[k].inputs[x] = id}} :
              k \in 1..Len(code.node_defs)}

\* the identifier the definition of a node refers to for its output port p
OutputName(code, p) ==
    LET k == CHOOSE x \in 1..Len(code.node_defs) : code.node_defs[x].node_id = p[1]
    IN  code.node_defs[k].outputs[p[2]]

\* C14: the closure generate_cpp returns ends in the identifier bound to
\* the open input port of the Graph when there is exactly one, and in one
\* tuple of the identifiers bound to the open input ports, in node-id then
\* port-index order, otherwise; it takes one placeholder parameter per
\* open output port, the k-th of them standing for the k-th open output
\* port and receiving the k-th downstream expression; a call whose list of
\* downstreams is not as long as the Graph has open output ports raises
\* and returns no text.
C14_ClosureShape ==
    /\ (call.op = "generate_cpp"
          /\ Len(call.downstreams) # Cardinality(OpenPorts(output_edge_index)))
       => (result = "ValueError" /\ returned = NoCode)
    /\ Generated =>
          /\ Len(returned.return) = Cardinality(OpenPorts(input_edge_index))
          /\ returned.tuple = (Cardinality(OpenPorts(input_edge_index)) # 1)
          /\ \A k \in 1..Len(returned.return) :
                /\ Cardinality(PortsBoundTo(returned, returned.return[k])) = 1
                /\ PortsBoundTo(returned, returned.return[k])
                      \subseteq OpenPorts(input_edge_index)
          /\ \A k, l \in 1..Len(returned.return) :
                k < l =>
                   \A p \in PortsBoundTo(returned, returned.return[k]),
                      q \in PortsBoundTo(returned, returned.return[l]) :
                      PortBefore(p, q)
          /\ Len(returned.params) = Cardinality(OpenPorts(output_edge_index))
          /\ returned.args = call.downstreams
          /\ \A k, l \in 1..Len(returned.params) :
                k # l => returned.params[k] # returned.params[l]
          /\ \A p \in OpenPorts(output_edge_index) :
                \E k \in 1..Len(returned.params) :
                   /\ OutputName(returned, p) = returned.params[k]
                   /\ Cardinality({q \in OpenPorts(output_edge_index) :
                                      PortBefore(q, p)}) = k - 1

\* C14's case: code generated for a Graph with a committed edge, several
\* open input ports and several open output ports
C14_Witness ==
    /\ Generated
    /\ committed(Graph) # {}
    /\ Cardinality(OpenPorts(input_edge_index)) >= 2
    /\ Cardinality(OpenPorts(output_edge_index)) >= 2
    /\ \E n \in DOMAIN input_edge_index :
          \E i, j \in 1..Len(input_edge_index[n]) :
             input_edge_index[n][i] = None /\ input_edge_index[n][j] # None /\ i < j

\* the places of code that refer to the identifier id: <<k, i>> for output i
\* of definition k, <<0, k>> for the k-th returned identifier
References(code, id) ==
    UNION {{<<k, i>> : i \in {x \in 1..Len(code.node_defs[k].outputs) :
                                code.node_defs[k].outputs[x] = id}} :
              k \in 1..Len(code.node_defs)}
    \cup {<<0, k>> : k \in {x \in 1..Len(code.return) : code.return[x] = id}}

\* the places of code that bind an identifier: <<k, i>> for input i of
\* definition k
Bindings(code) ==
    UNION {{<<k, i>> : i \in 1..Len(code.node_defs[k].inputs)} :
              k \in 1..Len(code.node_defs)}

\* C35: in a closure generate_cpp returns every input port of every node is
\* bound to an identifier of its own, and every such identifier is referred
\* to in exactly one place: in the return expression when the port is open,
\* and otherwise as an output of the definition of the node that produces
\* into the port.
C35_EachIdentifierOnce ==
    Generated =>
       /\ \A b, c \in Bindings(returned) :
             b # c => returned.node_defs[b[1]].inputs[b[2]]
                         # returned.node_defs[c[1]].inputs[c[2]]
       /\ \A b \in Bindings(returned) :
             LET d == returned.node_defs[b[1]]
                 id == d.inputs[b[2]]
                 e == input_edge_index[d.node_id][b[2]]
             IN  /\ Cardinality(References(returned, id)) = 1
                 /\ \A r \in References(returned, id) :
                       IF e = None THEN r[1] = 0
                       ELSE /\ r[1] # 0
                            /\ returned.node_defs[r[1]].node_id = edges[e].producer_id

\* ------------------------------------------------------------------------
\* Properties of Builder
\* ------------------------------------------------------------------------

\* the exit codes of the launched subprocesses of kind cmd
ExitCodes(launches, cmd) ==
    {launches[k].returncode : k \in {x \in 1..Len(launches) : launches[x].cmd = cmd}}

\* C15: build() on a Builder at stage Created, no code having been set,
\* fails its assertion, launches neither "meson setup" nor "meson compile"
\* and leaves the stage at Created and every other field as it was.
C15_BuildWithoutCode ==
    [][(call'.op = "build" /\ stage = CREATED)
          => (/\ result' = "AssertionError"
              /\ launched' = <<>>
              /\ stage' = CREATED
              /\ UNCHANGED builder_vars)]_vars

\* C15's case: build() has been called on a Builder without code
C15_Witness ==
    /\ call.op = "build"
    /\ stage = CREATED
    /\ source = NoSource
    /\ result = "AssertionError"

\* C16: configure() on a Builder that is configured fails its assertion
\* and launches no subprocess; the Builder stays as it was.
C16_ConfigureTwice ==
    [][(call'.op = "configure" /\ stage >= CONFIGURED)
          => (/\ result' = "AssertionError"
              /\ launched' = <<>>
              /\ UNCHANGED builder_vars)]_vars

\* C16's case: configure() has been called on a Builder that an earlier
\* configure step had configured
C16_Witness ==
    /\ call.op = "configure"
    /\ result = "AssertionError"
    /\ stage = CONFIGURED
    /\ setup_launches = 1

\* C17: whatever set_code, configure and build calls are made on one
\* Builder, failed and retried ones among them, "meson setup" is launched
\* for it at most once.
C17_OneSetupLaunch == setup_launches <= 1

\* C18: build() on a Builder at CodeWritten launches "meson setup" first
\* and "meson compile" after it exactly when the configure step has
\* succeeded, and nothing else; build() on a configured Builder launches
\* "meson compile" alone; a build() that raises nothing returns the target
\* path the configure step has recorded.
C18_BuildSteps ==
    [][call'.op = "build" =>
          /\ stage = CODE_WRITTEN =>
                /\ Len(launched') \in {1, 2}
                /\ launched'[1].cmd = "setup"
                /\ Len(launched') = 2 <=>
                      (launched'[1].returncode = 0 /\ stage' = CONFIGURED)
                /\ Len(launched') = 2 => launched'[2].cmd = "compile"
                /\ result' = "ok" =>
                      (Len(launched') = 2 /\ launched'[2].returncode = 0)
          /\ stage = CONFIGURED =>
                /\ Len(launched') = 1
                /\ launched'[1].cmd = "compile"
                /\ target_path' = target_path
          /\ result' = "ok" =>
                (returned' = target_path' /\ target_path' \in TargetPaths)]_vars

\* C18's case: a build() on a Builder at CodeWritten has configured,
\* compiled and returned
C18_Witness ==
    /\ call.op = "build"
    /\ result = "ok"
    /\ Len(launched) = 2
    /\ stage = CONFIGURED

\* C19: a configure() or build() call one of whose subprocesses has ended
\* with a nonzero exit code raises a build failure and returns no path;
\* after a failed "meson setup" no "meson compile" is launched and the
\* stage is where it was; after a failed "meson compile" the stage is not
\* Built.
C19_NonzeroExitRaises ==
    [][(/\ call'.op \in {"configure", "build"}
        /\ \E k \in 1..Len(launched') : launched'[k].returncode # 0)
          => (/\ result' \in {"configuration_failed", "build_failed"}
              /\ returned' = NoPath
              /\ (\E code \in ExitCodes(launched', "setup") : code # 0) =>
                    (/\ result' = "configuration_failed"
                     /\ ExitCodes(launched', "compile") = {}
                     /\ stage' = stage)
              /\ (\E code \in ExitCodes(launched', "compile") : code # 0) =>
                    (/\ result' = "build_failed"
                     /\ stage' = CONFIGURED
                     /\ staged' = staged))]_vars

\* C19's case: a build() whose configure step succeeded and whose compile
\* step ended with a nonzero exit code
C19_Witness ==
    /\ call.op = "build"
    /\ Len(launched) = 2
    /\ launched[1].returncode = 0
    /\ launched[2].returncode # 0
    /\ result = "build_failed"

\* C20: the stage of a Builder stays or moves one stage forward along
\* Created, CodeWritten, Configured, Built, or moves to Discarded in
\* cleanup, called explicitly, at the end of a with-block or by the
\* finalizer; set_code on a Builder at CodeWritten or later leaves the stage
\* where it is; only build(), configuring by itself, may move the stage by
\* more than one.
C20_StageForward ==
    [][/\ \/ stage' = stage
          \/ stage' = DISCARDED /\ call'.op \in {"cleanup", "__exit__", "__del__"}
          \/ stage >= CREATED /\ stage' = stage + 1
          \/ stage >= CREATED /\ stage' > stage /\ call'.op = "build"
       /\ (call'.op = "set_code" /\ stage >= CODE_WRITTEN) => stage' = stage
       /\ stage' \in {DISCARDED, CREATED, CODE_WRITTEN, CONFIGURED, BUILT}]_vars

\* C20's case: set_code has written a new text into a configured Builder
C20_Witness ==
    /\ call.op = "set_code"
    /\ result = "ok"
    /\ stage = CONFIGURED
    /\ source # NoSource

\* C21: after a build() that has returned a path, raising nothing, the
\* stage of the Builder is Built.
C21_BuiltAfterBuild ==
    [][(call'.op = "build" /\ result' = "ok") => stage' = BUILT]_vars

\* C22: after cleanup(), called explicitly, at the end of a with-block left
\* normally or by an exception, or by the finalizer, the stage is
\* Discarded and no source is left; the stage then stays Discarded, and
\* every later set_code(), configure() or build() fails its assertion,
\* writes no source and launches no subprocess.
C22_Released ==
    /\ [][call'.op \in {"cleanup", "__exit__", "__del__"}
             => (stage' = DISCARDED /\ source' = NoSource)]_vars
    /\ [][stage = DISCARDED => stage' = DISCARDED]_vars
    /\ [][(stage = DISCARDED /\ call'.op \in {"set_code", "configure", "build"})
             => (/\ result' = "AssertionError"
                 /\ source' = NoSource
                 /\ launched' = <<>>
                 /\ UNCHANGED builder_vars)]_vars

\* C22's case: build() has been refused on a Builder that had been
\* configured and was then released
C22_Witness ==
    /\ call.op = "build"
    /\ result = "AssertionError"
    /\ stage = DISCARDED
    /\ target_path \in TargetPaths
    /\ source = NoSource

\* ------------------------------------------------------------------------
\* Properties of compile_graph and Context
\* ------------------------------------------------------------------------

\* C12: compile_graph and Context, given a Graph whose number of open
\* input ports is not one (none, as in an empty Graph, or several), raise
\* the "graph is not executable" failure; they do so before any code is
\* generated, written into the Builder, configured, compiled or loaded:
\* the Builder, its source text and the importer's directory are as they
\* were and no subprocess has been launched.
C12_NotExecutable ==
    [][(/\ call'.op \in {"compile_graph", "Context"}
        /\ Cardinality(OpenPorts(input_edge_index)) # 1)
          => (/\ result' = "not_executable"
              /\ returned' = <<>>
              /\ launched' = <<>>
              /\ UNCHANGED graph_vars
              /\ UNCHANGED builder_vars
              /\ module_dir' = module_dir)]_vars

\* C12's case: compile_graph has refused a Graph with two open input
\* ports, the shared Builder holding the code of an earlier Graph
C12_Witness ==
    /\ call.op = "compile_graph"
    /\ result = "not_executable"
    /\ Cardinality(OpenPorts(input_edge_index)) = 2
    /\ stage = CONFIGURED
    /\ source # NoSource

\* ------------------------------------------------------------------------
\* Properties of concurrent compile_graph calls
\* ------------------------------------------------------------------------

\* the statements of compile_graph inside "with _build_lock:"
InSection(t) ==
    stmt[t] \in {"generate", "set_code", "build", "setup", "compiling",
                 "import", "release"}

\* the statements between the source write of a call and the end of its
\* module load
Written(t) == stmt[t] \in {"build", "setup", "compiling", "import"}

\* C23: of the threads that call compile_graph at the same time, one at a
\* time is inside the with-block, the one that holds the lock; from its
\* source write to its module load the source in the project directory is
\* the one it wrote, its "meson compile" reads that source, the file it
\* moves and loads was compiled from it, and the module a call returns was
\* compiled from the code generated in that call under its module name; no
\* two meson subprocesses run at the same time.
C23_Serialized ==
    /\ \A t, u \in Threads : (InSection(t) /\ InSection(u)) => t = u
    /\ \A t \in Threads : InSection(t) => build_lock = t
    /\ Cardinality(running) <= 1
    /\ \A r \in running :
          /\ stmt[r.by] = (IF r.cmd = "setup" THEN "setup" ELSE "compiling")
          /\ r.cmd = "compile" => r.source = <<locals[r.by].code>>
    /\ \A t \in Threads :
          /\ Written(t) => source = <<locals[t].code>>
          /\ stmt[t] = "import" => artifact = <<locals[t].code>>
          /\ locals[t].mod # NoSource =>
                /\ locals[t].mod = <<locals[t].code>>
                /\ locals[t].code.module = locals[t].mod_name
          /\ (stmt[t] = "idle" /\ outcome[t] = "ok") => locals[t].mod # NoSource

\* C23's case: a thread has returned the module of its call while another
\* thread, which took the lock after it, is about to load the module it has
\* compiled on the same Builder
C23_Witness ==
    \E t, u \in Threads :
       /\ t # u
       /\ stmt[t] = "idle"
       /\ outcome[t] = "ok"
       /\ stmt[u] = "import"
       /\ locals[u].mod_name # locals[t].mod_name
       /\ artifact = <<locals[u].code>>
       /\ locals[t].mod = <<locals[t].code>>
       /\ setup_launches = 1

\* the import name that carries the number i
NumberedName(i) == "libtcspc_graph_" \o ToString(i)

\* the import names with the numbers the counter has handed out
NamesHandedOut == {NumberedName(i) : i \in 0..(mod_ctr - 1)}

\* C39: every compile_graph call, also by threads calling at the same time
\* and after calls that failed in code generation, build or load, takes the
\* import name that carries the number the module counter is at and moves
\* the counter on, and the counter never goes back; so the names of the
\* calls so far, and of the files in the importer's directory, carry
\* numbers below the counter and the name a call takes is none of them,
\* and no call ends in the already-imported failure of the importer.
C39_FreshName ==
    /\ [](/\ \A t \in Threads :
                /\ locals[t].mod_name # "" => locals[t].mod_name \in NamesHandedOut
                /\ outcome[t] # "already_imported"
          /\ \A placed \in module_dir : placed[1] \in NamesHandedOut)
    /\ [][/\ mod_ctr' >= mod_ctr
          /\ \A t \in Threads :
                (locals'[t].mod_name # locals[t].mod_name /\ locals'[t].mod_name # "")
                   => /\ locals'[t].mod_name = NumberedName(mod_ctr)
                      /\ locals'[t].mod_name \notin NamesHandedOut
                      /\ mod_ctr' = mod_ctr + 1]_vars

\* C39's case: the module of a call has failed to load from the file placed
\* under the name of the call, and the call of another thread after it has
\* taken another name and loaded its module
C39_Witness ==
    \E t, u \in Threads :
       /\ stmt[t] = "idle"
       /\ outcome[t] \notin {"none", "ok"}
       /\ locals[t].mod_name = NumberedName(0)
       /\ stmt[u] = "idle"
       /\ outcome[u] = "ok"
       /\ locals[u].mod_name = NumberedName(1)
       /\ \A i \in {0, 1} : \E placed \in module_dir : placed[1] = NumberedName(i)

\* ------------------------------------------------------------------------
\* Properties of the background loop
\* ------------------------------------------------------------------------

\* C24: however many threads call submit() at the same time, the first
\* calls of the process included, one background loop is ever constructed
\* and every submitted task is on that loop.
C24_OneLoop ==
    /\ Len(loops) <= 1
    /\ \A f \in DOMAIN futures : futures[f].loop = 1
    /\ \A t \in Threads : submits[t].at = "submit" => submits[t].loop = 1

\* the coroutine of future f has been run by its loop, to its first await
\* at least
Started(f) ==
    /\ f \in DOMAIN futures
    /\ futures[f].task \notin {"new", "start"}

\* the result() call that returned last returned the value of a task that
\* ran to its end, or raised CancelledError on a cancelled future
ResultIsTheTasks ==
    call.op = "result" =>
       /\ result = "ok" <=> futures[call.f].state = "FINISHED"
       /\ result = "ok" =>
             /\ futures[call.f].task = "finished"
             /\ returned = <<ResultOf(futures[call.f].coro)>>
       /\ result # "ok" =>
             /\ result = "CancelledError"
             /\ futures[call.f].state \in CancelledStates

\* C25: result() on the future of submit() returns the value the task
\* returned, once the task has run to its end on the loop, and raises
\* CancelledError where it is called if the future was cancelled before;
\* a cancel() that finds the future pending cancels it for good; a task
\* submitted to a loop that is not shut down is eventually run.
C25_ResultAndProgress ==
    /\ []ResultIsTheTasks
    /\ [][\A f \in DOMAIN futures :
             /\ futures[f].state = "FINISHED" => futures'[f].state = "FINISHED"
             /\ futures[f].state \in CancelledStates
                   => futures'[f].state \in CancelledStates]_vars
    /\ \A f \in 1..MaxTasks : (f \in DOMAIN futures) ~> Started(f)
    /\ \A f \in 1..MaxTasks :
          (f \in DOMAIN futures /\ futures[f].coro = "set_result")
             ~> (f \in DOMAIN futures /\ futures[f].state \in DoneStates)

\* C25's case: result() has returned the value of a task that ran to its
\* end, and the future of another task, cancelled by its caller while the
\* task awaited, is cancelled
C25_Witness ==
    /\ call.op = "result"
    /\ result = "ok"
    /\ returned = <<42>>
    /\ \E g \in DOMAIN futures :
          /\ g # call.f
          /\ futures[g].state = "CANCELLED_AND_NOTIFIED"
          /\ futures[g].task = "cancelled"
          /\ futures[g].coro = "run_subprocess"

\* C26: after shutdown() has returned no future submitted to the loop before
\* it is pending: each is finished or cancelled, and the future of a task
\* that does not end by itself is cancelled, however many are outstanding.
C26_DoneAfterShutdown ==
    \A l \in DOMAIN loops :
       loops[l].shutdown = "returned" =>
          \A f \in DOMAIN futures :
             futures[f].loop = l =>
                /\ futures[f].state \in DoneStates
                /\ futures[f].coro # "set_result"
                      => futures[f].state \in CancelledStates

\* C26's case: shutdown() has returned on a loop on which two tasks that
\* never end by themselves were outstanding when it was called
C26_Witness ==
    \E l \in DOMAIN loops :
       /\ loops[l].shutdown = "returned"
       /\ loops[l].waited = {1, 2}
       /\ futures[1].coro = "sleep_forever"
       /\ futures[2].coro = "run_subprocess"
       /\ futures[1].task = "cancelled"
       /\ futures[2].task = "cancelled"

\* C27: shutdown() stops the loop only when every task of the loop has
\* finished handling its cancellation, the cleanup it awaits included: when
\* the loop has stopped no task is left suspended.
C27_CleanupBeforeStop ==
    \A f \in DOMAIN futures :
       loops[futures[f].loop].closed =>
          futures[f].task \in {"finished", "cancelled"}

\* the subprocess of the task of f is running, terminate() called or not
Live(f) == futures[f].proc \in {"alive", "signalled"}

\* C28 as stated: once the caller has cancelled the future of a task that
\* wraps a subprocess and result() has raised CancelledError, the subprocess
\* is not running.
C28_NoLiveAfterRaise ==
    (/\ call.op = "result"
     /\ result = "CancelledError"
     /\ futures[call.f].coro = "run_subprocess") => ~Live(call.f)

\* C28, amended: cancelling the future makes the task, on the loop that
\* keeps running, terminate its subprocess and wait for its exit: a task
\* that has finished handling the cancellation has no running subprocess,
\* and after the cancellation the task eventually has finished handling it,
\* with the subprocess gone; result() raising CancelledError does not wait
\* for that.
C28_TerminatedEventually ==
    /\ [](\A f \in DOMAIN futures :
             (futures[f].coro = "run_subprocess" /\ futures[f].task = "cancelled")
                => ~Live(f))
    /\ \A f \in 1..MaxTasks :
          (/\ f \in DOMAIN futures
           /\ futures[f].coro = "run_subprocess"
           /\ futures[f].state \in CancelledStates)
             ~> (/\ f \in DOMAIN futures
                 /\ futures[f].task = "cancelled"
                 /\ futures[f].proc = "exited")

\* C28's case: the caller cancelled the future of a subprocess task while
\* the task awaited communicate(), result() raised CancelledError, and the
\* task has since terminated the subprocess and seen it exit
C28_Witness ==
    /\ call.op = "result"
    /\ result = "CancelledError"
    /\ futures[call.f].coro = "run_subprocess"
    /\ futures[call.f].state = "CANCELLED_AND_NOTIFIED"
    /\ futures[call.f].task = "cancelled"
    /\ futures[call.f].proc = "exited"

\* C33: _run_subprocess_nostdin, cancelled while it awaits communicate(),
\* sends terminate to the subprocess and awaits its exit before it lets the
\* cancellation through: the step that receives the cancellation with the
\* subprocess running signals it and leaves the task unfinished, the task
\* ends as cancelled only in a step that finds the subprocess gone, and on a
\* loop that keeps running a subprocess that runs when its future has been
\* cancelled eventually has exited.
C33_TerminateThenPropagate ==
    /\ [][\A f \in DOMAIN futures :
             /\ (futures[f].proc = "alive" /\ futures'[f].task # futures[f].task)
                   => /\ futures'[f].task = "cleanup"
                      /\ futures'[f].proc = "signalled"
             /\ (futures[f].task # "cancelled" /\ futures'[f].task = "cancelled")
                   => ~Live(f)]_vars
    /\ \A f \in 1..MaxTasks :
          (/\ f \in DOMAIN futures
           /\ futures[f].state \in CancelledStates
           /\ futures[f].proc = "alive")
             ~> (f \in DOMAIN futures /\ futures[f].proc = "exited")

\* C33's case: a task cancelled while it awaited communicate() has sent
\* terminate to its subprocess and awaits its exit, not yet cancelled
C33_Witness ==
    \E f \in DOMAIN futures :
       /\ futures[f].coro = "run_subprocess"
       /\ futures[f].state \in CancelledStates
       /\ futures[f].task = "cleanup"
       /\ futures[f].proc = "signalled"

\* the thread of loop l is about to invoke the done callbacks of future f
Invoking(l, f) ==
    /\ loops[l].ready # <<>>
    /\ Head(loops[l].ready) = [do |-> "invoke_callbacks", f |-> f]

\* C38: under every interleaving of submit(), the completion of tasks on
\* the loop thread and shutdown(), _task_futures holds only futures that
\* were submitted to its loop and are not done, the future whose done
\* callbacks the loop thread is invoking aside; and the remove(f) of the
\* done callback of a future finds the future in the set: it has not been
\* removed before and the set has not been cleared.
C38_RemovalFinds ==
    /\ [](\A l \in DOMAIN loops : \A f \in loops[l].task_futures :
             /\ f \in DOMAIN futures
             /\ futures[f].loop = l
             /\ futures[f].state \in DoneStates => Invoking(l, f))
    /\ [][\A l \in DOMAIN loops : \A f \in DOMAIN futures :
             (Invoking(l, f) /\ ~Invoking(l, f)')
                => f \in loops[l].task_futures]_vars

\* ------------------------------------------------------------------------
\* Properties of ExtensionImporter
\* ------------------------------------------------------------------------

\* C29: import_module(name, path) raises the already-imported failure,
\* placing and loading nothing, whenever an earlier call has placed a file
\* under the same name, whether that file loaded or not; so a name is
\* loaded at most once.
C29_NameOnce ==
    [][(/\ call'.op = "import_module"
        /\ \E file \in module_dir : file[1] = call'.name)
          => (/\ result' = "already_imported"
              /\ returned' = <<>>
              /\ module_dir' = module_dir)]_vars

\* ------------------------------------------------------------------------
\* Properties of the execution context
\* ------------------------------------------------------------------------

\* C30: once flush() has returned on an execution context, every later
\* handle() or flush() call raises RuntimeError and calls no method of the
\* processor: a flush() that returns leaves the context flushed, a flushed
\* context stays flushed, and a call on a flushed context is refused.
C30_Expired ==
    /\ [][(call'.op = "flush" /\ result' = "ok")
             => end_of_life_reason' = "flushed"]_vars
    /\ [][end_of_life_reason = "flushed"
             => (/\ end_of_life_reason' = "flushed"
                 /\ call'.op \in {"handle", "flush"}
                 /\ result' = "RuntimeError"
                 /\ reached' = <<>>
                 /\ handled' = handled)]_vars

\* C30's case: flush() returned on a context that had handled events, and
\* the handle() call after it has been refused without reaching the
\* processor
C30_Witness ==
    /\ call.op = "handle"
    /\ result = "RuntimeError"
    /\ end_of_life_reason = "flushed"
    /\ reached = <<>>
    /\ Len(handled) >= 1

\* C37: a handle() or flush() call that raises, with EndOfProcessing or
\* with any other exception, leaves the context with an end-of-life reason;
\* a context that has a reason keeps that reason, and every handle() or
\* flush() on it raises RuntimeError and calls no method of the processor.
C37_ExpiredAfterRaise ==
    /\ [][(call'.op \in {"handle", "flush"} /\ result' # "ok")
             => end_of_life_reason' # NoReason]_vars
    /\ [][end_of_life_reason # NoReason
             => (/\ end_of_life_reason' = end_of_life_reason
                 /\ call'.op \in {"handle", "flush"}
                 /\ result' = "RuntimeError"
                 /\ reached' = <<>>
                 /\ handled' = handled)]_vars

\* C37's case: the processor raised an error in a call after it had been
\* given an event, and the flush() after that has been refused with the
\* reason of the error still recorded
C37_Witness ==
    /\ call.op = "flush"
    /\ result = "RuntimeError"
    /\ end_of_life_reason = "finished with error"
    /\ reached = <<>>
    /\ Len(handled) >= 2

\* ------------------------------------------------------------------------
\* Properties of the order update of connect
\* ------------------------------------------------------------------------

\* the node ids of the nodes connect(producer, consumer) names
ProducerId(G, producer) == G.node_name_index[producer[1]]

ConsumerId(G, consumer) == G.node_name_index[consumer[1]]

\* C31: a connect() changes the order only at positions of the affected
\* region, from the position of the consumer to the position of the
\* producer: every position outside it holds the node it held, the order is
\* a permutation of the node ids, and where the producer precedes the
\* consumer the order is as it was.
C31_ReorderFrame ==
    /\ [](/\ Len(topo_sorted_node_ids) = Len(nodes)
          /\ Range(topo_sorted_node_ids) = 0..(Len(nodes) - 1))
    /\ [][call'.op = "connect" =>
            IF ~PortsKnown(Graph, call'.producer, call'.consumer)
            THEN topo_sorted_node_ids' = topo_sorted_node_ids
            ELSE /\ (Position(ProducerId(Graph, call'.producer))
                       < Position(ConsumerId(Graph, call'.consumer)))
                       => topo_sorted_node_ids' = topo_sorted_node_ids
                 /\ \A pos \in 1..Len(topo_sorted_node_ids) :
                       (\/ pos < Position(ConsumerId(Graph, call'.consumer))
                        \/ pos > Position(ProducerId(Graph, call'.producer)))
                          => topo_sorted_node_ids'[pos] = topo_sorted_node_ids[pos]]_vars

\* C31's case: a connect whose producer was added after its consumer has
\* put the producer before the consumer, and a node outside the affected
\* region is where it was added
C31_Witness ==
    /\ call.op = "connect"
    /\ result = "ok"
    /\ ProducerId(Graph, call.producer) > ConsumerId(Graph, call.consumer)
    /\ Position(ProducerId(Graph, call.producer))
          < Position(ConsumerId(Graph, call.consumer))
    /\ \E pos \in 1..Len(topo_sorted_node_ids) :
          /\ topo_sorted_node_ids[pos] = pos - 1
          /\ \/ pos < Position(ProducerId(Graph, call.producer))
             \/ pos > Position(ConsumerId(Graph, call.consumer))

\* the position of a node in the order after the step
PositionNext(node_id) == IndexOf(topo_sorted_node_ids', node_id)

\* the nodes of G at the positions from..to of its order
Region(G, from, to) == {G.topo_sorted_node_ids[pos] : pos \in from..to}

\* the nodes in the affected region of connect(producer, consumer) on G
\* that the consumer reaches, the consumer among them
ForwardSet(G, producer, consumer) ==
    {n \in Region(G, Position(ConsumerId(G, consumer)),
                     Position(ProducerId(G, producer))) :
        Reachable(G, ConsumerId(G, consumer), n)}

\* the nodes in the affected region that reach the producer, the producer
\* among them
BackwardSet(G, producer, consumer) ==
    {n \in Region(G, Position(ConsumerId(G, consumer)),
                     Position(ProducerId(G, producer))) :
        Reachable(G, n, ProducerId(G, producer))}

\* the order after the step is the order before it with the slots of the
\* sets B and F refilled: B first, then F, each in its order
Refilled(B, F) ==
    /\ \A pos \in 1..Len(topo_sorted_node_ids) :
          topo_sorted_node_ids[pos] \notin B \cup F
             => topo_sorted_node_ids'[pos] = topo_sorted_node_ids[pos]
    /\ \A pos \in 1..Len(topo_sorted_node_ids) :
          topo_sorted_node_ids[pos] \in B \cup F
             => topo_sorted_node_ids'[pos] \in B \cup F
    /\ \A b \in B, f \in F : PositionNext(b) < PositionNext(f)
    /\ \A n, o \in B : Position(n) < Position(o) => PositionNext(n) < PositionNext(o)
    /\ \A n, o \in F : Position(n) < Position(o) => PositionNext(n) < PositionNext(o)

\* C32: a connect() that reorders refills the slots of the nodes of the
\* affected region that reach the producer (the producer among them) and
\* of those the consumer reaches (the consumer among them) with the first
\* set followed by the second, each in the order it had; the other nodes of
\* the region keep their positions.  A connect that succeeds with the
\* producer not before the consumer reorders.
C32_Refill ==
    [][call'.op = "connect" =>
          /\ topo_sorted_node_ids' # topo_sorted_node_ids
                => /\ PortsFree(Graph, call'.producer, call'.consumer)
                   /\ Refilled(BackwardSet(Graph, call'.producer, call'.consumer),
                               ForwardSet(Graph, call'.producer, call'.consumer))
          /\ (/\ result' = "ok"
              /\ Position(ProducerId(Graph, call'.producer))
                    > Position(ConsumerId(Graph, call'.consumer)))
                => /\ topo_sorted_node_ids' # topo_sorted_node_ids
                   /\ PositionNext(ProducerId(Graph, call'.producer))
                         < PositionNext(ConsumerId(Graph, call'.consumer))]_vars

\* C32's case: a connect has moved its producer before its consumer across
\* a node of the affected region that neither reaches the producer nor is
\* reached from the consumer, and that node is where it was added
C32_Witness ==
    /\ call.op = "connect"
    /\ result = "ok"
    /\ ProducerId(Graph, call.producer) > ConsumerId(Graph, call.consumer)
    /\ \E pos \in 1..Len(topo_sorted_node_ids) :
          /\ Position(ProducerId(Graph, call.producer)) < pos
          /\ pos < Position(ConsumerId(Graph, call.consumer))
          /\ topo_sorted_node_ids[pos] = pos - 1
          /\ ~Reachable(Graph, pos - 1, ProducerId(Graph, call.producer))
          /\ ~Reachable(Graph, ConsumerId(Graph, call.consumer), pos - 1)

\* ------------------------------------------------------------------------
\* Properties of Subgraph
\* ------------------------------------------------------------------------

\* the open slots of an edge table of G, <<node id, 1-based port>>
OpenSlots(G, edge_index) ==
    {<<n, k>> \in (0..(Len(G.nodes) - 1)) \X (1..2) :
        k <= Len(edge_index[n]) /\ edge_index[n][k] = None}

\* the names the map gives the port <<node name, port name>>
NamesFor(map, port) == {map[i][1] : i \in {j \in 1..Len(map) : map[j][2] = port}}

\* `names` name the open ports `slots` of G, in the order of the nodes:
\* node:port, or a name `map` gives the port
NamesThePorts(names, G, slots, ports_of(_), map) ==
    /\ Len(names) = Cardinality(slots)
    /\ \A n \in 0..(Len(G.nodes) - 1), k \in 1..2 :
          <<n, k>> \in slots =>
             LET before == Cardinality({s \in slots :
                              s[1] < n \/ (s[1] = n /\ s[2] < k)})
                 port == <<G.nodes[n + 1].name, ports_of(G.nodes[n + 1].node)[k]>>
             IN  IF NamesFor(map, port) = {}
                 THEN names[before + 1] = port[1] \o ":" \o port[2]
                 ELSE names[before + 1] \in NamesFor(map, port)

\* C34: Subgraph(graph) wraps a deep copy.  Its ports are the open ports
\* the Graph has when it is constructed, named node:port unless the input or
\* output map names them; and an add_node or connect on the Graph after
\* that, whatever it returns, leaves the Subgraph's input ports and output
\* ports as they were, and the graph it holds, of which its type-flow
\* results are a function (Subgraph.map_event_sets is the held graph's
\* map_event_sets).
C34_SubgraphIsACopy ==
    [][/\ call'.op = "Subgraph" =>
            /\ NamesThePorts(subgraph'.inputs, Graph,
                             OpenSlots(Graph, input_edge_index),
                             LAMBDA node : node.inputs, call'.input_map)
            /\ NamesThePorts(subgraph'.outputs, Graph,
                             OpenSlots(Graph, output_edge_index),
                             LAMBDA node : node.outputs, call'.output_map)
       /\ (subgraph.made /\ call'.op \in {"add_node", "connect"}) =>
            /\ subgraph'.inputs = subgraph.inputs
            /\ subgraph'.outputs = subgraph.outputs
            /\ held_graph(subgraph.graph)' = held_graph(subgraph.graph)]_vars

\* C34's case: a Subgraph with a renamed and a standard input port wraps a
\* Graph of two unconnected nodes, and the Graph has since been given a
\* third node and an edge, so that it has other open ports than the
\* Subgraph and rejects the input list the Subgraph maps
C34_Witness ==
    /\ subgraph.made
    /\ subgraph.inputs = <<"renamed", NameOf(1) \o ":input">>
    /\ subgraph.outputs = <<"second", NameOf(1) \o ":output">>
    /\ Len(nodes) = 3
    /\ call.op = "connect"
    /\ result = "ok"
    /\ Len(graph_inputs(Graph)) # Len(subgraph.inputs)
    /\ subgraph_map_event_sets(<<{IntEvent}, {BucketInt}>>).ok
    /\ ~graph_map_event_sets(Graph, <<{IntEvent}, {BucketInt}>>).ok

====
